---- MODULE Spec2Model ----
(***************************************************************************)
(* Kaleidoscope media-enrichment pipeline: the log bus client             *)
(* (shared/redis_streams), the worker handlers (services/*/worker.py),    *)
(* the publisher's retention and the post aggregator's fan-in.            *)
(*                                                                         *)
(* The module holds several specifications over one set of variables;     *)
(* each specification moves only the variables of its part:               *)
(*   SpecBus / FairSpecBus  one stream, one consumer group, two consumers *)
(*                          running RedisStreamConsumer.consume           *)
(*   SpecPub                one stream written by RedisStreamPublisher    *)
(*   SpecWorker             one worker process: consume around a handler  *)
(*   SpecAgg                the analysis workers' results and the post    *)
(*                          aggregator's collect_media_insights           *)
(***************************************************************************)
EXTENDS Integers, Sequences, FiniteSets, TLC

(***************************************************************************)
(* Bounds of the model                                                     *)
(***************************************************************************)
\* entries appended to the input stream
MaxEntries == 2
\* entries the worker process handles one after the other
MaxJobs == 2
\* deliveries of one entry to the worker's handler
MaxDeliveries == 2
\* expected media ids of the post being aggregated
MaxMedia == 1
\* stream-node-max-entries of the server (its default)
NodeMaxEntries == 100
\* messages in one publish_batch call
MaxBatch == 3
\* media ids of the post whose result entries are merged
MaxMergeMedia == 2
\* result entries merged into one media map
MaxFed == 3
\* actions in the batch handed to one bulk write
MaxBulk == 3
MaxRounds == 2
MaxSyncEvents == 3

(***************************************************************************)
(* Program constants                                                       *)
(***************************************************************************)
PENDING_IDLE_MS == 300000
PENDING_CHECK_INTERVAL == 60
DEFAULT_MAX_CLAIM_FAILURES == 3
\* claim_pending_messages(handler, count=50)
PENDING_SCAN_COUNT == 50
\* consume(handler, block_ms=5000, count=10)
DEFAULT_READ_COUNT == 10
\* the workers call consume(message_handler, block_ms=5000, count=1)
WORKER_READ_COUNT == 1
\* publish(stream_name, data, maxlen=DEFAULT_MAXLEN)
DEFAULT_MAXLEN == 10000
\* the analysis workers' retry budget
MAX_RETRIES == 3
\* seconds; the workers' backoff schedule
INITIAL_RETRY_DELAY == 1
MAX_RETRY_DELAY == 30
BACKOFF_MULTIPLIER == 2

Consumers == {"A", "B"}
\* the consumer process that may be killed (the other one keeps running)
CrashConsumers == {"A"}
Entries == 1..MaxEntries
Jobs == 1..MaxJobs
MediaIds == 1..MaxMedia
\* cur when no handler invocation is in progress: an id no entry has
NoEntry == MaxEntries + 1

Min(a, b) == IF a < b THEN a ELSE b

VARIABLES
    \* ---- the bus (one stream, one consumer group) ----
    stream,         \* ids of the entries of the stream, in append order
    groupExists,    \* the consumer group exists
    lastDelivered,  \* the group's last-delivered id (cursor of '>')
    pending,        \* consumer -> set of entry ids in its pending list
    idle,           \* entry -> ms since its last delivery (saturates at PENDING_IDLE_MS)
    delivered,      \* entry -> times_delivered (saturates at DEFAULT_MAX_CLAIM_FAILURES)
    \* ---- RedisStreamConsumer, one per consumer name ----
    pc,             \* consumer -> position in consume()
    batch,          \* consumer -> entries of the current xreadgroup reply still to handle
    cur,            \* consumer -> entry whose handler invocation is in progress / just ended
    result,         \* consumer -> outcome of the last handler invocation
    scan,           \* consumer -> xpending_range reply still to inspect
    checkDue,       \* consumer -> now - _last_pending_check >= PENDING_CHECK_INTERVAL
    startup,        \* consumer -> the scan in progress is the one made on startup
    readCount,      \* the count argument of consume
    dlq_publisher,  \* a DLQ sink is configured on the consumers
    \* ---- environment and history ----
    hasCrashed,     \* a consumer process was killed
    orphaned,       \* entries the killed process had read and not finished handling
    destroyed,      \* the group was deleted externally
    handled,        \* entries on which some handler invocation has ended
    ackCalls,       \* entry -> XACK calls sent for it: 0, 1, or 2 for two and more
    dlqSink,        \* entry -> number of successful dlq_publisher calls
    \* ---- RedisStreamPublisher: one stream as the server stores it ----
    xlen,           \* entries in the stream
    nodes,          \* entries in each node of the stream, oldest node first
    trimmed,        \* a trim has removed entries from the stream
    \* ---- one worker process: consume around one handler ----
    handlerKind,    \* which handler was handed to consume
    job,            \* the entry being handled (1..MaxJobs), MaxJobs + 1 when all are done
    wpc,            \* position in the handler / the consume step around it
    attempt,        \* handle_message: the retry loop's attempt
    wresult,        \* outcome of the handler invocation
    deliveries,     \* job -> deliveries of the entry to the handler
    exhausted,      \* job -> an exception reached the handler's outer except
    dlqCount,       \* job -> entries appended to ai-processing-dlq for it
    resultCount,    \* job -> entries appended to ml-insights-results for it
    wAcked,         \* job -> the entry was acked
    \* ---- post aggregator: collect_media_insights for one post ----
    published,      \* <<media id, worker>> pairs whose result entry was published
    insights,       \* undelivered entries of ml-insights-results
    faces,          \* undelivered entries of face-detection-results
    post_buffer,    \* _post_buffer[postId]
    media_map,      \* media id -> _services
    mergedFrom,     \* media id -> workers whose result entry was merged
    apc,            \* position in collect_media_insights
    deadlinePassed, \* time.time() >= deadline
    endedBy,        \* how the polling loop ended
    \* ---- post aggregator: handle_message around collect_media_insights ----
    run,            \* which trigger for the post is being handled (1 or 2)
    emitted,        \* run -> the aggregate fields of the record it published
    resultsAt,      \* run -> the per-image results published when it emitted
    \* ---- analysis worker: handle_message and the job's mediaUrl ----
    ssrf_check_enabled, \* url_validator._SSRF_CHECK_ENABLED
    mediaUrl,       \* job -> what the hostname of its mediaUrl is
    fjob,           \* the job being handled, MaxJobs + 1 when all are done
    fpc,            \* position in handle_message
    fattempt,       \* the retry loop's attempt
    httpGets,       \* job -> requests.get(media_url) calls issued
    failures,       \* job -> record_failure calls (metrics failure_count)
    fdlq,           \* job -> entries appended to the DLQ stream for it
    facked,         \* job -> the entry was acked
    \* ---- the bus codec: encode_message / decode_message on one field map ----
    message,        \* the field map x handed to encode_message
    encoded,        \* encode_message(x), none yet when empty
    decoded,        \* decode_message of it, none yet when empty
    \* ---- dead letters: publish_to_dlq and the DLQ processor ----
    dlq_auto_retry, \* DLQ_AUTO_RETRY
    original,       \* the fields of the job entry as consume hands them to the handler
    failedService,  \* service_name of the worker whose handler failed on the entry
    dlqStream,      \* entries of ai-processing-dlq (the fields as stored)
    dlqHandled,     \* the DLQ processor's handler has run on the DLQ entry
    retryStream,    \* entries the DLQ processor appended to post-image-processing
    \* ---- one worker process and a termination / interrupt signal ----
    workerKind,     \* which worker's main() runs
    signalled,      \* the signal the process has received, "none" before
    shutdown_flag,  \* the worker's shutdown event is set
    spc,            \* position of the main thread: in consume's loop or after it
    scanLeft,       \* stale pending entries the startup scan has still to reprocess
    replyLeft,      \* entries of the current xreadgroup reply not yet handled
    startedAfter,   \* a handler invocation was started after the signal
    aborted,        \* a handler invocation was cut short by the signal
    \* ---- the health server of a worker and its readiness flag ----
    readyKind,      \* which worker's main() runs
    rpc,            \* position of main()
    serving,        \* the health server thread accepts requests
    _ready,         \* _HealthHandler._ready
    rflag,          \* the worker's shutdown event is set
    answers,        \* answers given to GET /ready: status, position and flag then
    \* ---- the indexer (es_sync): main() and its in-memory batch ----
    batch_actions,  \* actions in the buffer that no bulk write was given yet
    sinceStart,     \* seconds since batch_start (saturates at the batch timeout)
    age,            \* seconds the oldest buffered action has been in the buffer
    iflag,          \* the shutdown event is set
    ipc,            \* position of main(): the consume loop, then the finally block
    finalFlush,     \* actions the finally block handed to sync_batch
    \* ---- the circuit breaker (shared/utils/circuit_breaker.py) ----
    _state,             \* CircuitState
    _failure_count,
    _half_open_calls,
    _last_failure_time, \* "none", or how it compares with now: "recent", "old"
    inFlight,           \* calls let through whose func has not returned yet
    recorded,           \* history: the outcomes recorded so far, in order
    _success_count,
    probing,            \* calls that read HALF_OPEN and wait for the lock again
    lastCall,           \* history: what the latest call() came to so far
    \* ---- validate_url as a function (shared/utils/url_validator.py) ----
    urlIn,    \* the argument of validate_url
    _SSRF_CHECK_ENABLED,
    _ALLOWED_DOMAINS,
    resolved,    \* what getaddrinfo answers for the hostname of the URL
    urlOut,   \* what validate_url returned or raised
    \* ---- the provider registry (shared/providers/registry.py) ----
    _REGISTRY,    \* the (task, platform) pairs with a provider class
    _INSTANCES,    \* the cache: pairs with the instance made for them
    environ,    \* the environment variables get_provider reads
    calls,   \* history: the get_provider calls made so far, in order
    \* ---- the face worker: a provider response and the entry published for it ----
    faces_list,    \* the faces of the provider's response
    facesPublished,   \* the faces of the entry on face-detection-results, or not yet
    \* ---- the fields of the entries the producers append ----
    appended,   \* entries appended so far: the stream, the producer and the field names
    \* ---- one image job and what handle_message made of it ----
    jobEntry,    \* the fields of the delivered entry, as text
    jobOutcome,   \* what handle_message did with it
    \* ---- the moderation worker's handler on one job (content_moderation/worker.py) ----
    mpc,    \* position in handle_message
    loop_attempt,    \* attempt of handle_message's for loop
    loop_delay,    \* delay of handle_message's for loop
    wrapper_attempt,    \* attempt of the retry_with_backoff wrapper around call_hf_api
    wrapper_delay,    \* delay of the retry_with_backoff wrapper
    last_exception,    \* type name of the exception being handled
    provider_calls,    \* history: requests.post calls made for the job
    warning_logs,    \* history: warning records logged for the job
    sleep_log,    \* history: the time.sleep arguments, in order
    every_call_503,    \* history: no provider call was answered 200
    download_failed,    \* history: a requests.get of the image failed
    mod_dlq,    \* history: the entries appended to ai-processing-dlq
    mod_result,   \* history: a result was appended to ml-insights-results
    \* ---- the aggregator's media map with the fields of the entries (post_aggregator/worker.py) ----
    mmap,    \* media id -> the media record of collect_media_insights
    fed,   \* history: the entries merged so far, in order
    \* ---- the indexer's bulk write (es_sync/worker.py, sync_batch) ----
    bulk_batch,    \* the actions handed to sync_batch: the kind of each document
    bpc,    \* position in sync_batch
    es_index,    \* positions of the actions written to the search store
    bulk_errors,    \* number of errors the bulk call reported, -1 before it
    doc_i,    \* position of the action the per-document loop is at
    doc_retry,    \* retry_count of sync_document
    attempted,    \* history: positions for which a per-document write was made
    sync_ok,   \* ok of the per-document loop
    \* ---- one consume loop and the errors of its reads (redis_streams/consumer.py, consume) ----
    nstream,    \* number of entries appended to the stream
    ngroup,    \* the consumer group exists
    nlast,    \* the group's last-delivered id
    npc,    \* position in the consume loop
    ncur,    \* reply of the last xreadgroup still to be handled: first and last id
    niter,    \* history: the outcome of the last iteration's read
    ninvoked,    \* history: entry -> handler invocations (up to 2)
    ndeleted,   \* history: the group was deleted while the loop ran
    \* ---- the DLQ sink of a consumer as the pending scan calls it (redis_streams/consumer.py) ----
    sinkRaised,    \* history: the entries for which the dlq_publisher call raised
    deliveryCounts,   \* the bus's delivery counter is followed although no sink reads it
    \* ---- post-image-processing, the analysis groups, ai-processing-dlq and the DLQ processor in a ring ----
    loop_auto_retry,    \* DLQ_AUTO_RETRY
    lfailing,    \* the service whose processing of the job fails on every attempt
    lstream,    \* entries of post-image-processing: the fields, and the round that appended it
    lpos,    \* analysis group -> how many entries of the stream its handler has been given
    ldlq,    \* entries of ai-processing-dlq: the fields, and the round of the entry that failed
    lproc,   \* how many DLQ entries the DLQ processor has handled
    \* ---- the indexer's sync events one by one: handler, batch, bulk write and ack (es_sync/worker.py, main) ----
    es_client,    \* ElasticsearchSyncHandler.es_client is set (not None)
    ix_next,    \* the next es-sync-queue entry to be delivered
    ix_kind,    \* entry -> what message_handler met on it, "none" before delivery
    ix_batch,    \* batch_actions: the entries whose action is buffered
    ix_since,    \* seconds since batch_start, up to ES_SYNC_BATCH_TIMEOUT
    ix_submitted,    \* history: the entries whose action was handed to es_bulk
    ix_acked,    \* history: the entries consume has acked
    ix_bulk    \* history: how the last sync_batch call went

busVars == <<stream, groupExists, lastDelivered, pending, idle, delivered>>
consumerVars == <<pc, batch, cur, result, scan, checkDue, startup, readCount, dlq_publisher>>
historyVars == <<hasCrashed, orphaned, destroyed, handled, ackCalls, dlqSink>>
pubVars == <<xlen, nodes, trimmed>>
workerVars == <<handlerKind, job, wpc, attempt, wresult, deliveries, exhausted, dlqCount,
                resultCount, wAcked>>
aggVars == <<published, insights, faces, post_buffer, media_map, mergedFrom, apc,
             deadlinePassed, endedBy>>
aggRunVars == <<run, emitted, resultsAt>>
\* the parts added around the bus client, the publisher, the worker and the fan-in
fetchVars == <<ssrf_check_enabled, mediaUrl, fjob, fpc, fattempt, httpGets, failures, fdlq,
               facked>>
codecVars == <<message, encoded, decoded>>
deadVars == <<dlq_auto_retry, original, failedService, dlqStream, dlqHandled, retryStream>>
shutVars == <<workerKind, signalled, shutdown_flag, spc, scanLeft, replyLeft, startedAfter,
              aborted>>
readyVars == <<readyKind, rpc, serving, _ready, rflag, answers>>
idxVars == <<batch_actions, sinceStart, age, iflag, ipc, finalFlush>>
cbVars == <<_state, _failure_count, _half_open_calls, _last_failure_time, inFlight, recorded,
           _success_count, probing, lastCall>>
urlVars == <<urlIn, _SSRF_CHECK_ENABLED, _ALLOWED_DOMAINS, resolved, urlOut>>
regVars == <<_REGISTRY, _INSTANCES, environ, calls>>
faceVars == <<faces_list, facesPublished>>
verVars == <<appended>>
jobVars == <<jobEntry, jobOutcome>>
modVars == <<mpc, loop_attempt, loop_delay, wrapper_attempt, wrapper_delay, last_exception, provider_calls, warning_logs, sleep_log, every_call_503, download_failed, mod_dlq, mod_result>>
mergeVars == <<mmap, fed>>
bulkVars == <<bulk_batch, bpc, es_index, bulk_errors, doc_i, doc_retry, attempted, sync_ok>>
recVars == <<nstream, ngroup, nlast, npc, ncur, niter, ninvoked, ndeleted>>
sinkVars == <<sinkRaised, deliveryCounts>>
loopVars == <<loop_auto_retry, lfailing, lstream, lpos, ldlq, lproc>>
ixVars == <<es_client, ix_next, ix_kind, ix_batch, ix_since, ix_submitted, ix_acked, ix_bulk>>
extVars == <<aggRunVars, fetchVars, codecVars, deadVars, shutVars, readyVars, idxVars, cbVars, urlVars, regVars, faceVars, verVars, jobVars, modVars, mergeVars, bulkVars, recVars, sinkVars, loopVars, ixVars>>
\* what the steps of one added part leave alone
baseVars == <<busVars, consumerVars, historyVars, pubVars, workerVars, aggVars>>
notAggRun == <<fetchVars, codecVars, deadVars, shutVars, readyVars, idxVars, cbVars, urlVars, regVars, faceVars, verVars, jobVars, modVars, mergeVars, bulkVars, recVars, sinkVars, loopVars, ixVars>>
notFetch == <<aggRunVars, codecVars, deadVars, shutVars, readyVars, idxVars, cbVars, urlVars, regVars, faceVars, verVars, jobVars, modVars, mergeVars, bulkVars, recVars, sinkVars, loopVars, ixVars>>
notCodec == <<aggRunVars, fetchVars, deadVars, shutVars, readyVars, idxVars, cbVars, urlVars, regVars, faceVars, verVars, jobVars, modVars, mergeVars, bulkVars, recVars, sinkVars, loopVars, ixVars>>
notDead == <<aggRunVars, fetchVars, codecVars, shutVars, readyVars, idxVars, cbVars, urlVars, regVars, faceVars, verVars, jobVars, modVars, mergeVars, bulkVars, recVars, sinkVars, loopVars, ixVars>>
notShut == <<aggRunVars, fetchVars, codecVars, deadVars, readyVars, idxVars, cbVars, urlVars, regVars, faceVars, verVars, jobVars, modVars, mergeVars, bulkVars, recVars, sinkVars, loopVars, ixVars>>
notReady == <<aggRunVars, fetchVars, codecVars, deadVars, shutVars, idxVars, cbVars, urlVars, regVars, faceVars, verVars, jobVars, modVars, mergeVars, bulkVars, recVars, sinkVars, loopVars, ixVars>>
notCb == <<aggRunVars, fetchVars, codecVars, deadVars, shutVars, readyVars, idxVars, urlVars, regVars, faceVars, verVars, jobVars, modVars, mergeVars, bulkVars, recVars, sinkVars, loopVars, ixVars>>
notIdx == <<aggRunVars, fetchVars, codecVars, deadVars, shutVars, readyVars, cbVars, urlVars, regVars, faceVars, verVars, jobVars, modVars, mergeVars, bulkVars, recVars, sinkVars, loopVars, ixVars>>
notUrl == <<aggRunVars, fetchVars, codecVars, deadVars, shutVars, readyVars, idxVars, cbVars, regVars, faceVars, verVars, jobVars, modVars, mergeVars, bulkVars, recVars, sinkVars, loopVars, ixVars>>
notReg == <<aggRunVars, fetchVars, codecVars, deadVars, shutVars, readyVars, idxVars, cbVars, urlVars, faceVars, verVars, jobVars, modVars, mergeVars, bulkVars, recVars, sinkVars, loopVars, ixVars>>
notFace == <<aggRunVars, fetchVars, codecVars, deadVars, shutVars, readyVars, idxVars, cbVars, urlVars, regVars, verVars, jobVars, modVars, mergeVars, bulkVars, recVars, sinkVars, loopVars, ixVars>>
notVer == <<aggRunVars, fetchVars, codecVars, deadVars, shutVars, readyVars, idxVars, cbVars, urlVars, regVars, faceVars, jobVars, modVars, mergeVars, bulkVars, recVars, sinkVars, loopVars, ixVars>>
notJob == <<aggRunVars, fetchVars, codecVars, deadVars, shutVars, readyVars, idxVars, cbVars, urlVars, regVars, faceVars, verVars, modVars, mergeVars, bulkVars, recVars, sinkVars, loopVars, ixVars>>
notMod == <<aggRunVars, fetchVars, codecVars, deadVars, shutVars, readyVars, idxVars, cbVars, urlVars, regVars, faceVars, verVars, jobVars, mergeVars, bulkVars, recVars, sinkVars, loopVars, ixVars>>
notMerge == <<aggRunVars, fetchVars, codecVars, deadVars, shutVars, readyVars, idxVars, cbVars, urlVars, regVars, faceVars, verVars, jobVars, modVars, bulkVars, recVars, sinkVars, loopVars, ixVars>>
notBulk == <<aggRunVars, fetchVars, codecVars, deadVars, shutVars, readyVars, idxVars, cbVars, urlVars, regVars, faceVars, verVars, jobVars, modVars, mergeVars, recVars, sinkVars, loopVars, ixVars>>
notRec == <<aggRunVars, fetchVars, codecVars, deadVars, shutVars, readyVars, idxVars, cbVars, urlVars, regVars, faceVars, verVars, jobVars, modVars, mergeVars, bulkVars, sinkVars, loopVars, ixVars>>
notSink == <<aggRunVars, fetchVars, codecVars, deadVars, shutVars, readyVars, idxVars, cbVars, urlVars, regVars, faceVars, verVars, jobVars, modVars, mergeVars, bulkVars, recVars, loopVars, ixVars>>
notLoop == <<aggRunVars, fetchVars, codecVars, deadVars, shutVars, readyVars, idxVars, cbVars, urlVars, regVars, faceVars, verVars, jobVars, modVars, mergeVars, bulkVars, recVars, sinkVars, ixVars>>
notIx == <<aggRunVars, fetchVars, codecVars, deadVars, shutVars, readyVars, idxVars, cbVars, urlVars, regVars, faceVars, verVars, jobVars, modVars, mergeVars, bulkVars, recVars, sinkVars, loopVars>>
\* the parts a bus step leaves alone
partVars == <<pubVars, workerVars, aggVars, extVars>>
vars == <<busVars, consumerVars, historyVars, pubVars, workerVars, aggVars, extVars>>

(***************************************************************************)
(* The bus: Redis stream commands as the client uses them                  *)
(***************************************************************************)
\* the group's pending entries list: every consumer's list together
GroupPending == UNION {pending[c] : c \in Consumers}

\* ascending sequence of the elements of a finite set of integers
RECURSIVE SortedSeq(_)
SortedSeq(S) ==
    IF S = {} THEN <<>>
    ELSE LET m == CHOOSE x \in S : \A y \in S : x <= y
         IN <<m>> \o SortedSeq(S \ {m})

FirstN(s, n) == SubSeq(s, 1, Min(n, Len(s)))

SeqToSet(s) == {s[i] : i \in 1..Len(s)}

\* XACK stream group id: the id leaves whichever pending list holds it, and its
\* idle time and delivery count go with it
XAck(e) ==
    /\ pending' = [c \in Consumers |-> pending[c] \ {e}]
    /\ idle' = [idle EXCEPT ![e] = 0]
    /\ delivered' = [delivered EXCEPT ![e] = 0]

\* history: one more XACK call was sent for e
CountAck(e) == [ackCalls EXCEPT ![e] = Min(@ + 1, 2)]

\* XCLAIM ... consumer min_idle_time ids=[e]: whether the bus hands e over
XClaimable(e) ==
    /\ groupExists
    /\ e \in GroupPending
    /\ idle[e] >= PENDING_IDLE_MS

\* variant: the claim takes e from its owner and never records it for the claimer
XClaimDrops(c, e) ==
    [d \in Consumers |-> pending[d] \ {e}]

\* variant: the claim records e for the claimer and leaves it with its owner too
XClaimKeepsOwner(c, e) ==
    [d \in Consumers |-> IF d = c THEN pending[d] \cup {e} ELSE pending[d]]

\* XCLAIM: e moves from its owner's pending list to the claimer's
XClaimPending(c, e) ==
    [d \in Consumers |-> IF d = c THEN pending[d] \cup {e} ELSE pending[d] \ {e}]

\* times_delivered after one more delivery: the only reader is the poison test
\* "dlq_publisher and times_delivered >= max_claim_failures", so the count is kept
\* up to max_claim_failures, and is left alone when no sink is configured
Redeliver(n) ==
    IF dlq_publisher \/ deliveryCounts THEN Min(n + 1, DEFAULT_MAX_CLAIM_FAILURES) ELSE n

\* XPENDING stream group - + count: id-ordered snapshot of the pending entries
XPendingRange ==
    LET ids == FirstN(SortedSeq(GroupPending), PENDING_SCAN_COUNT)
    IN [i \in 1..Len(ids) |->
          [message_id |-> ids[i],
           time_since_delivered |-> idle[ids[i]],
           times_delivered |-> delivered[ids[i]]]]

\* XREADGROUP ... streams={stream: '>'} count: the undelivered entries, oldest first
NewEntries(count) ==
    FirstN(SelectSeq(stream, LAMBDA e : e > lastDelivered), count)

(***************************************************************************)
(* RedisStreamConsumer (shared/redis_streams/consumer.py)                  *)
(***************************************************************************)
\* variant: the xack is sent whatever the handler did
AckAlways(res) == TRUE

\* consume: handler(msg_id, data) is followed by xack only when it returned;
\* "except Exception: ... continue" sends no ack
AckAfterHandler(res) == res = "returned"

\* variant: the comparison inverted, the scan keeps the entries that are not idle yet
IdleInverted(entry) == entry.time_since_delivered < PENDING_IDLE_MS

\* variant: an entry idle for exactly PENDING_IDLE_MS is skipped
IdleStrict(entry) == entry.time_since_delivered > PENDING_IDLE_MS

\* claim_pending_messages: an entry whose snapshot says idle < PENDING_IDLE_MS is skipped
IdleEnough(entry) == entry.time_since_delivered >= PENDING_IDLE_MS

\* claim_pending_messages: the xpending_range reply without the entries that
\* "if idle < PENDING_IDLE_MS: continue" passes over; a missing group raises and
\* the scan returns 0
PendingToInspect ==
    IF groupExists THEN SelectSeq(XPendingRange, IdleEnough) ELSE <<>>

\* variant: the poison test looks at the delivery count alone
IsPoisonByCount(entry) == entry.times_delivered >= DEFAULT_MAX_CLAIM_FAILURES

\* claim_pending_messages: the poison test
IsPoison(entry) ==
    /\ entry.times_delivered >= DEFAULT_MAX_CLAIM_FAILURES
    /\ dlq_publisher

\* create_consumer_group(start_id="0"): XGROUP CREATE ... id=0 mkstream; BUSYGROUP is success
create_consumer_group ==
    /\ groupExists' = TRUE
    /\ lastDelivered' = IF groupExists THEN lastDelivered ELSE 0

\* consume(): create the group, then the startup call of claim_pending_messages
\* up to its xpending_range
Start(c) ==
    /\ pc[c] = "stopped"
    /\ create_consumer_group
    /\ scan' = [scan EXCEPT ![c] = PendingToInspect]
    /\ startup' = [startup EXCEPT ![c] = TRUE]
    /\ pc' = [pc EXCEPT ![c] = "scan"]
    /\ UNCHANGED <<stream, pending, idle, delivered, batch, cur, result, checkDue,
                   readCount, dlq_publisher, historyVars>>
    /\ UNCHANGED partVars

\* variant: the ack is sent only after the sink took the entry
acks_when_emitted(sinkOk) == sinkOk

\* claim_pending_messages: "ACK so the message leaves the pending list
\* regardless": the xack follows the try/except around the sink call
acks_after_sink(sinkOk) == TRUE

\* claim_pending_messages: the poison path: xrange, dlq_publisher (its exception
\* is caught), then xack and continue
ScanPoison(c) ==
    /\ pc[c] = "scan"
    /\ scan[c] # <<>>
    /\ IsPoison(Head(scan[c]))
    /\ LET e == Head(scan[c]).message_id
       IN \E sinkOk \in BOOLEAN :
             /\ dlqSink' = [dlqSink EXCEPT ![e] = IF sinkOk THEN @ + 1 ELSE @]
             /\ sinkRaised' = IF sinkOk THEN sinkRaised ELSE sinkRaised \cup {e}
             /\ UNCHANGED deliveryCounts
             /\ IF acks_after_sink(sinkOk)
                THEN /\ XAck(e)
                     /\ ackCalls' = CountAck(e)
                ELSE UNCHANGED <<pending, idle, delivered, ackCalls>>
    /\ scan' = [scan EXCEPT ![c] = Tail(@)]
    /\ UNCHANGED <<stream, groupExists, lastDelivered, pc, batch, cur,
                   result, checkDue, startup, readCount, dlq_publisher,
                   hasCrashed, orphaned, destroyed, handled>>
    /\ UNCHANGED <<pubVars, workerVars, aggVars, notSink>>

\* claim_pending_messages: xclaim(min_idle_time=PENDING_IDLE_MS, [msg_id]) hands the
\* entry over and the handler is invoked on it
ScanClaim(c) ==
    /\ pc[c] = "scan"
    /\ scan[c] # <<>>
    /\ ~IsPoison(Head(scan[c]))
    /\ LET e == Head(scan[c]).message_id
       IN /\ XClaimable(e)
          /\ pending' = XClaimPending(c, e)
          /\ idle' = [idle EXCEPT ![e] = 0]
          /\ delivered' = [delivered EXCEPT ![e] = Redeliver(@)]
          /\ cur' = [cur EXCEPT ![c] = e]
    /\ pc' = [pc EXCEPT ![c] = "claim_handler"]
    /\ scan' = [scan EXCEPT ![c] = Tail(@)]
    /\ UNCHANGED <<stream, groupExists, lastDelivered, batch, result, checkDue, startup,
                   readCount, dlq_publisher, hasCrashed, orphaned, destroyed, handled,
                   ackCalls, dlqSink>>
    /\ UNCHANGED partVars

\* claim_pending_messages: xclaim returns nothing (the entry was acked or claimed
\* meanwhile) or raises NOGROUP, which "except Exception as claim_err" catches
ScanClaimNothing(c) ==
    /\ pc[c] = "scan"
    /\ scan[c] # <<>>
    /\ ~IsPoison(Head(scan[c]))
    /\ ~XClaimable(Head(scan[c]).message_id)
    /\ scan' = [scan EXCEPT ![c] = Tail(@)]
    /\ UNCHANGED <<busVars, pc, batch, cur, result, checkDue, startup, readCount,
                   dlq_publisher, historyVars>>
    /\ UNCHANGED partVars

\* the handler invocation made by claim_pending_messages ends
ClaimHandlerEnd(c) ==
    /\ pc[c] = "claim_handler"
    /\ \E r \in {"returned", "raised"} : result' = [result EXCEPT ![c] = r]
    /\ handled' = handled \cup {cur[c]}
    /\ pc' = [pc EXCEPT ![c] = "claim_after"]
    /\ UNCHANGED <<busVars, batch, cur, scan, checkDue, startup, readCount,
                   dlq_publisher, hasCrashed, orphaned, destroyed, ackCalls, dlqSink>>
    /\ UNCHANGED partVars

\* claim_pending_messages: xack after the handler returned; an exception of the
\* handler was caught and the scan goes on
ClaimAfter(c) ==
    /\ pc[c] = "claim_after"
    /\ IF AckAfterHandler(result[c])
       THEN /\ XAck(cur[c])
            /\ ackCalls' = CountAck(cur[c])
       ELSE UNCHANGED <<pending, idle, delivered, ackCalls>>
    /\ cur' = [cur EXCEPT ![c] = NoEntry]
    /\ result' = [result EXCEPT ![c] = "none"]
    /\ pc' = [pc EXCEPT ![c] = "scan"]
    /\ UNCHANGED <<stream, groupExists, lastDelivered, batch,
                   scan, checkDue, startup, readCount, dlq_publisher,
                   hasCrashed, orphaned, destroyed, handled, dlqSink>>
    /\ UNCHANGED partVars

\* claim_pending_messages returns; after the startup call consume sets
\* _last_pending_check = time.time()
ScanEnd(c) ==
    /\ pc[c] = "scan"
    /\ scan[c] = <<>>
    /\ pc' = [pc EXCEPT ![c] = IF startup[c] THEN "loop" ELSE "read"]
    /\ checkDue' = [checkDue EXCEPT ![c] = IF startup[c] THEN FALSE ELSE @]
    /\ startup' = [startup EXCEPT ![c] = FALSE]
    /\ UNCHANGED <<busVars, batch, cur, result, scan, readCount, dlq_publisher,
                   historyVars>>
    /\ UNCHANGED partVars

\* consume: top of the loop: the periodic pending check, or straight to the read;
\* xpending_range on a missing group raises and the scan returns 0
LoopTop(c) ==
    /\ pc[c] = "loop"
    /\ IF checkDue[c]
       THEN /\ scan' = [scan EXCEPT ![c] = PendingToInspect]
            /\ checkDue' = [checkDue EXCEPT ![c] = FALSE]
            /\ pc' = [pc EXCEPT ![c] = "scan"]
       ELSE /\ pc' = [pc EXCEPT ![c] = "read"]
            /\ UNCHANGED <<scan, checkDue>>
    /\ UNCHANGED <<busVars, batch, cur, result, startup, readCount, dlq_publisher,
                   historyVars>>
    /\ UNCHANGED partVars

\* consume: xreadgroup('>') delivers new entries; the handler is entered for the first
ReadDeliver(c) ==
    /\ pc[c] = "read"
    /\ groupExists
    /\ NewEntries(readCount) # <<>>
    /\ LET msgs == NewEntries(readCount)
       IN /\ pending' = [pending EXCEPT ![c] = @ \cup SeqToSet(msgs)]
          /\ idle' = [e \in Entries |-> IF e \in SeqToSet(msgs) THEN 0 ELSE idle[e]]
          /\ delivered' = [e \in Entries |-> IF e \in SeqToSet(msgs) THEN 1 ELSE delivered[e]]
          /\ lastDelivered' = msgs[Len(msgs)]
          /\ cur' = [cur EXCEPT ![c] = Head(msgs)]
          /\ batch' = [batch EXCEPT ![c] = Tail(msgs)]
    /\ pc' = [pc EXCEPT ![c] = "handler"]
    /\ UNCHANGED <<stream, groupExists, result, scan, checkDue, startup, readCount,
                   dlq_publisher, hasCrashed, orphaned, destroyed, handled, ackCalls, dlqSink>>
    /\ UNCHANGED partVars

\* consume: xreadgroup blocks block_ms and returns nothing: "if not messages: continue"
ReadEmpty(c) ==
    /\ pc[c] = "read"
    /\ groupExists
    /\ NewEntries(readCount) = <<>>
    /\ pc' = [pc EXCEPT ![c] = "loop"]
    /\ UNCHANGED <<busVars, batch, cur, result, scan, checkDue, startup, readCount,
                   dlq_publisher, historyVars>>
    /\ UNCHANGED partVars

\* consume: xreadgroup raises NOGROUP: the group is created again at "0"
ReadNoGroup(c) ==
    /\ pc[c] = "read"
    /\ ~groupExists
    /\ create_consumer_group
    /\ pc' = [pc EXCEPT ![c] = "loop"]
    /\ UNCHANGED <<stream, pending, idle, delivered, batch, cur, result, scan, checkDue,
                   startup, readCount, dlq_publisher, historyVars>>
    /\ UNCHANGED partVars

\* consume: any other bus error: log, sleep 1 s, next iteration
ReadError(c) ==
    /\ pc[c] = "read"
    /\ pc' = [pc EXCEPT ![c] = "loop"]
    /\ UNCHANGED <<busVars, batch, cur, result, scan, checkDue, startup, readCount,
                   dlq_publisher, historyVars>>
    /\ UNCHANGED partVars

\* the handler invocation made by consume ends
HandlerEnd(c) ==
    /\ pc[c] = "handler"
    /\ \E r \in {"returned", "raised"} : result' = [result EXCEPT ![c] = r]
    /\ handled' = handled \cup {cur[c]}
    /\ pc' = [pc EXCEPT ![c] = "after"]
    /\ UNCHANGED <<busVars, batch, cur, scan, checkDue, startup, readCount,
                   dlq_publisher, hasCrashed, orphaned, destroyed, ackCalls, dlqSink>>
    /\ UNCHANGED partVars

\* consume: xack after the handler returned, nothing after it raised; then the next
\* entry of the reply, or the next iteration
AfterHandler(c) ==
    /\ pc[c] = "after"
    /\ IF AckAfterHandler(result[c])
       THEN /\ XAck(cur[c])
            /\ ackCalls' = CountAck(cur[c])
       ELSE UNCHANGED <<pending, idle, delivered, ackCalls>>
    /\ IF batch[c] # <<>>
       THEN /\ cur' = [cur EXCEPT ![c] = Head(batch[c])]
            /\ batch' = [batch EXCEPT ![c] = Tail(@)]
            /\ pc' = [pc EXCEPT ![c] = "handler"]
       ELSE /\ cur' = [cur EXCEPT ![c] = NoEntry]
            /\ pc' = [pc EXCEPT ![c] = "loop"]
            /\ UNCHANGED batch
    /\ result' = [result EXCEPT ![c] = "none"]
    /\ UNCHANGED <<stream, groupExists, lastDelivered, scan,
                   checkDue, startup, readCount, dlq_publisher,
                   hasCrashed, orphaned, destroyed, handled, dlqSink>>
    /\ UNCHANGED partVars

(***************************************************************************)
(* Environment of the consumers                                            *)
(***************************************************************************)
\* a producer appends an entry to the stream (RedisStreamPublisher.publish; the
\* stream stays far below DEFAULT_MAXLEN here, so the trim removes nothing)
AppendEntry ==
    /\ Len(stream) < MaxEntries
    /\ stream' = Append(stream, Len(stream) + 1)
    /\ UNCHANGED <<groupExists, lastDelivered, pending, idle, delivered, consumerVars,
                   historyVars>>
    /\ UNCHANGED partVars

\* PENDING_IDLE_MS pass: pending entries grow idle, every loop's pending check falls due
Tick ==
    /\ idle' = [e \in Entries |->
                  IF e \in GroupPending THEN Min(idle[e] + PENDING_IDLE_MS, PENDING_IDLE_MS)
                  ELSE idle[e]]
    /\ checkDue' = [c \in Consumers |-> PENDING_IDLE_MS >= PENDING_CHECK_INTERVAL * 1000 \/ checkDue[c]]
    /\ UNCHANGED <<stream, groupExists, lastDelivered, pending, delivered, pc, batch, cur,
                   result, scan, startup, readCount, dlq_publisher, historyVars>>
    /\ UNCHANGED partVars

\* the consumer process is killed; its pending list stays on the bus
Crash(c) ==
    /\ c \in CrashConsumers
    /\ ~hasCrashed
    /\ pc[c] # "stopped"
    /\ hasCrashed' = TRUE
    /\ orphaned' = (SeqToSet(batch[c]) \cup {cur[c]}) \ {NoEntry}
    /\ pc' = [pc EXCEPT ![c] = "stopped"]
    /\ batch' = [batch EXCEPT ![c] = <<>>]
    /\ scan' = [scan EXCEPT ![c] = <<>>]
    /\ cur' = [cur EXCEPT ![c] = NoEntry]
    /\ result' = [result EXCEPT ![c] = "none"]
    /\ startup' = [startup EXCEPT ![c] = FALSE]
    /\ checkDue' = [checkDue EXCEPT ![c] = FALSE]
    /\ UNCHANGED <<busVars, readCount, dlq_publisher,
                   destroyed, handled, ackCalls, dlqSink>>
    /\ UNCHANGED partVars

\* the group is deleted externally while the consumers run
DestroyGroup ==
    /\ groupExists
    /\ ~destroyed
    /\ destroyed' = TRUE
    /\ groupExists' = FALSE
    /\ pending' = [c \in Consumers |-> {}]
    /\ idle' = [e \in Entries |-> 0]
    /\ delivered' = [e \in Entries |-> 0]
    /\ UNCHANGED <<stream, lastDelivered, consumerVars,
                   hasCrashed, orphaned, handled, ackCalls, dlqSink>>
    /\ UNCHANGED partVars

ConsumerStep(c) ==
    \/ Start(c)
    \/ ScanClaim(c)
    \/ ScanClaimNothing(c)
    \/ ClaimHandlerEnd(c)
    \/ ClaimAfter(c)
    \/ ScanEnd(c)
    \/ LoopTop(c)
    \/ ReadDeliver(c)
    \/ ReadEmpty(c)
    \/ ReadError(c)
    \/ HandlerEnd(c)
    \/ AfterHandler(c)

\* the parts at rest: the values they have in a specification that does not move them
PubAtRest ==
    /\ xlen = 0
    /\ nodes = <<>>
    /\ trimmed = FALSE

WorkerAtRest ==
    /\ handlerKind = "analysis"
    /\ job = 1
    /\ wpc = "idle"
    /\ attempt = 0
    /\ wresult = "none"
    /\ deliveries = [j \in Jobs |-> 0]
    /\ exhausted = [j \in Jobs |-> FALSE]
    /\ dlqCount = [j \in Jobs |-> 0]
    /\ resultCount = [j \in Jobs |-> 0]
    /\ wAcked = [j \in Jobs |-> FALSE]

AggAtRest ==
    /\ published = {}
    /\ insights = {}
    /\ faces = {}
    /\ post_buffer = {}
    /\ media_map = [m \in MediaIds |-> {}]
    /\ mergedFrom = [m \in MediaIds |-> {}]
    /\ apc = "idle"
    /\ deadlinePassed = FALSE
    /\ endedBy = "none"

\* the record slot of a run that has not published
NoRecord == [mediaCount |-> 0 - 1]

AggRunAtRest ==
    /\ run = 1
    /\ emitted = [r \in 1..2 |-> NoRecord]
    /\ resultsAt = [r \in 1..2 |-> {}]

\* hostnames of a job's mediaUrl: in ALLOWED_IMAGE_DOMAINS and resolving to a
\* public address, resolving to a private / loopback / link-local / reserved
\* address, or no URL at all
UrlHosts == {"allowed", "private", "none"}

FetchAtRest ==
    /\ ssrf_check_enabled = TRUE
    /\ mediaUrl = [j \in Jobs |-> "allowed"]
    /\ fjob = 1
    /\ fpc = "idle"
    /\ fattempt = 0
    /\ httpGets = [j \in Jobs |-> 0]
    /\ failures = [j \in Jobs |-> 0]
    /\ fdlq = [j \in Jobs |-> 0]
    /\ facked = [j \in Jobs |-> FALSE]

\* the field names of the maps the codec is applied to
Fields == {"mediaId", "mediaUrl"}

\* a Python value: its type and its content; a str is a sequence of characters
PyStr(text) == [t |-> "str", v |-> text]
PyInt(n) == [t |-> "int", v |-> n]
PyBool(b) == [t |-> "bool", v |-> b]
PyNone == [t |-> "none", v |-> 0]
PyList(items) == [t |-> "list", v |-> items]
PyDict(key, value) == [t |-> "dict", v |-> <<key, value>>]
ValueError == [t |-> "error", v |-> 0]

CodecAtRest ==
    /\ message = [f \in Fields |-> PyNone]
    /\ encoded = {}
    /\ decoded = {}

\* the fields of a job entry on post-image-processing, in the order of the entry
JobFields == <<"mediaId", "postId", "mediaUrl", "correlationId">>

DeadAtRest ==
    /\ dlq_auto_retry = FALSE
    /\ original = [i \in 1..Len(JobFields) |-> <<>>]
    /\ failedService = "content-moderation"
    /\ dlqStream = {}
    /\ dlqHandled = FALSE
    /\ retryStream = {}

ShutAtRest ==
    /\ workerKind = "analysis"
    /\ signalled = "none"
    /\ shutdown_flag = FALSE
    /\ spc = "startup"
    /\ scanLeft = 0
    /\ replyLeft = 0
    /\ startedAfter = FALSE
    /\ aborted = FALSE

ReadyAtRest ==
    /\ readyKind = "base"
    /\ rpc = "start"
    /\ serving = FALSE
    /\ _ready = FALSE
    /\ rflag = FALSE
    /\ answers = {}

IdxAtRest ==
    /\ batch_actions = 0
    /\ sinceStart = 0
    /\ age = 0
    /\ iflag = FALSE
    /\ ipc = "consume"
    /\ finalFlush = 0

CbAtRest ==
    /\ _state = "closed"
    /\ _failure_count = 0
    /\ _half_open_calls = 0
    /\ _last_failure_time = "none"
    /\ inFlight = 0
    /\ recorded = <<>>
    /\ _success_count = 0
    /\ probing = 0
    /\ lastCall = [n |-> 0, outcome |-> "none"]

\* validate_url(None)
UrlNone == [kind |-> "None", scheme |-> "", netloc |-> ""]

UrlAtRest ==
    /\ urlIn = UrlNone
    /\ _SSRF_CHECK_ENABLED = TRUE
    /\ _ALLOWED_DOMAINS = {}
    /\ resolved = "public"
    /\ urlOut = [how |-> "pending", error |-> "", url |-> UrlNone]

\* the tasks _register_defaults registers for "huggingface" (two of the five)
DefaultRegistry == {<<"moderation", "huggingface">>, <<"face", "huggingface">>}

\* {TASK}_PLATFORM for the two tasks, and AI_PLATFORM
EnvKeys == {"MODERATION_PLATFORM", "FACE_PLATFORM", "AI_PLATFORM"}

RegAtRest ==
    /\ _REGISTRY = DefaultRegistry
    /\ _INSTANCES = {}
    /\ environ = [k \in EnvKeys |-> "unset"]
    /\ calls = <<>>

FaceAtRest ==
    /\ faces_list = <<>>
    /\ facesPublished = [done |-> FALSE, faces |-> <<>>]

VerAtRest ==
    /\ appended = {}

\* a field the entry does not have
Absent == <<"(absent)">>

\* handle_message has not run
NoOutcome == [done |-> FALSE, invalid_logged |-> FALSE, attempted |-> FALSE,
              result |-> FALSE, dlq |-> FALSE, acked |-> FALSE]

JobAtRest ==
    /\ jobEntry = [mediaId |-> Absent, postId |-> Absent, mediaUrl |-> Absent, utf8 |-> TRUE]
    /\ jobOutcome = NoOutcome

ModAtRest ==
    /\ mpc = "idle"
    /\ loop_attempt = 0
    /\ loop_delay = INITIAL_RETRY_DELAY
    /\ wrapper_attempt = 0
    /\ wrapper_delay = INITIAL_RETRY_DELAY
    /\ last_exception = "none"
    /\ provider_calls = 0
    /\ warning_logs = 0
    /\ sleep_log = <<>>
    /\ every_call_503 = TRUE
    /\ download_failed = FALSE
    /\ mod_dlq = <<>>
    /\ mod_result = FALSE

\* the media ids of the post whose entries are merged
MergeMediaIds == 1..MaxMergeMedia

\* a field of a result entry or of a media record: form "absent" (no such key),
\* "empty" (the empty string), "str" (a non-empty bus string) or "json" (a JSON
\* value of the mediaInsights seed), and the number the text or the value stands
\* for (isSafe: 1 for true; moderationConfidence: hundredths; tags: the length of
\* the list)
NoValue == [form |-> "absent", v |-> 0]

\* media_map.setdefault(media_id, {"mediaId": media_id, "_services": set()})
NoMediaRecord ==
    [present |-> FALSE, _services |-> {}, isSafe |-> NoValue,
     moderationConfidence |-> NoValue, facesDetected |-> NoValue, tags |-> NoValue]

MergeAtRest ==
    /\ mmap = [m \in MergeMediaIds |-> NoMediaRecord]
    /\ fed = <<>>

BulkAtRest ==
    /\ bulk_batch = <<>>
    /\ bpc = "building"
    /\ es_index = {}
    /\ bulk_errors = 0 - 1
    /\ doc_i = 0
    /\ doc_retry = 0
    /\ attempted = {}
    /\ sync_ok = TRUE

\* what the last iteration of the consume loop met: the error of its read, whether
\* the group was created again, and the seconds it slept
Iteration(error, created, slept) == [error |-> error, created |-> created, slept |-> slept]

RecAtRest ==
    /\ nstream = 0
    /\ ngroup = FALSE
    /\ nlast = 0
    /\ npc = "stopped"
    /\ ncur = <<1, 0>>
    /\ niter = Iteration("none", FALSE, 0)
    /\ ninvoked = [e \in Entries |-> 0]
    /\ ndeleted = FALSE

SinkAtRest ==
    /\ sinkRaised = {}
    /\ deliveryCounts = FALSE

\* the service_name each worker passes to publish_to_dlq
ServiceNames == {"content-moderation", "image-tagger", "scene-recognition",
                 "image-captioning", "face-recognition"}

LoopAtRest ==
    /\ loop_auto_retry = FALSE
    /\ lfailing = "content-moderation"
    /\ lstream = <<>>
    /\ lpos = [g \in ServiceNames |-> 0]
    /\ ldlq = <<>>
    /\ lproc = 0

IxAtRest ==
    /\ es_client = TRUE
    /\ ix_next = 1
    /\ ix_kind = [e \in 1..MaxSyncEvents |-> "none"]
    /\ ix_batch = <<>>
    /\ ix_since = 0
    /\ ix_submitted = {}
    /\ ix_acked = {}
    /\ ix_bulk = "none"

ExtAtRest ==
    /\ IxAtRest
    /\ LoopAtRest
    /\ SinkAtRest
    /\ RecAtRest
    /\ BulkAtRest
    /\ MergeAtRest
    /\ ModAtRest
    /\ JobAtRest
    /\ VerAtRest
    /\ FaceAtRest
    /\ RegAtRest
    /\ UrlAtRest
    /\ CbAtRest
    /\ IdxAtRest
    /\ AggRunAtRest
    /\ FetchAtRest
    /\ CodecAtRest
    /\ DeadAtRest
    /\ ShutAtRest
    /\ ReadyAtRest

RestExceptIx ==
    LoopAtRest /\ SinkAtRest /\ RecAtRest /\ BulkAtRest /\ MergeAtRest /\ ModAtRest /\ JobAtRest /\ VerAtRest /\ FaceAtRest /\ RegAtRest /\ UrlAtRest /\ CbAtRest /\ IdxAtRest /\ AggRunAtRest /\ FetchAtRest /\ CodecAtRest /\ DeadAtRest /\ ShutAtRest /\ ReadyAtRest

RestExceptLoop ==
    SinkAtRest /\ RecAtRest /\ BulkAtRest /\ MergeAtRest /\ ModAtRest /\ JobAtRest /\ VerAtRest /\ FaceAtRest /\ RegAtRest /\ UrlAtRest /\ CbAtRest /\ IdxAtRest /\ AggRunAtRest /\ FetchAtRest /\ CodecAtRest /\ DeadAtRest /\ ShutAtRest /\ ReadyAtRest /\ IxAtRest

RestExceptSink ==
    RecAtRest /\ BulkAtRest /\ MergeAtRest /\ ModAtRest /\ JobAtRest /\ VerAtRest /\ FaceAtRest /\ RegAtRest /\ UrlAtRest /\ CbAtRest /\ IdxAtRest /\ AggRunAtRest /\ FetchAtRest /\ CodecAtRest /\ DeadAtRest /\ ShutAtRest /\ ReadyAtRest /\ LoopAtRest /\ IxAtRest

RestExceptRec ==
    BulkAtRest /\ MergeAtRest /\ ModAtRest /\ JobAtRest /\ VerAtRest /\ FaceAtRest /\ RegAtRest /\ UrlAtRest /\ CbAtRest /\ IdxAtRest /\ AggRunAtRest /\ FetchAtRest /\ CodecAtRest /\ DeadAtRest /\ ShutAtRest /\ ReadyAtRest /\ SinkAtRest /\ LoopAtRest /\ IxAtRest

RestExceptBulk ==
    MergeAtRest /\ ModAtRest /\ JobAtRest /\ VerAtRest /\ FaceAtRest /\ RegAtRest /\ UrlAtRest /\ CbAtRest /\ IdxAtRest /\ AggRunAtRest /\ FetchAtRest /\ CodecAtRest /\ DeadAtRest /\ ShutAtRest /\ ReadyAtRest /\ RecAtRest /\ SinkAtRest /\ LoopAtRest /\ IxAtRest

RestExceptMerge ==
    ModAtRest /\ JobAtRest /\ VerAtRest /\ FaceAtRest /\ RegAtRest /\ UrlAtRest /\ CbAtRest /\ IdxAtRest /\ AggRunAtRest /\ FetchAtRest /\ CodecAtRest /\ DeadAtRest /\ ShutAtRest /\ ReadyAtRest /\ BulkAtRest /\ RecAtRest /\ SinkAtRest /\ LoopAtRest /\ IxAtRest

RestExceptMod ==
    JobAtRest /\ VerAtRest /\ FaceAtRest /\ RegAtRest /\ UrlAtRest /\ CbAtRest /\ IdxAtRest /\ AggRunAtRest /\ FetchAtRest /\ CodecAtRest /\ DeadAtRest /\ ShutAtRest /\ ReadyAtRest /\ MergeAtRest /\ BulkAtRest /\ RecAtRest /\ SinkAtRest /\ LoopAtRest /\ IxAtRest

RestExceptJob ==
    VerAtRest /\ FaceAtRest /\ RegAtRest /\ UrlAtRest /\ CbAtRest /\ IdxAtRest /\ AggRunAtRest /\ FetchAtRest /\ CodecAtRest /\ DeadAtRest /\ ShutAtRest /\ ReadyAtRest /\ ModAtRest /\ MergeAtRest /\ BulkAtRest /\ RecAtRest /\ SinkAtRest /\ LoopAtRest /\ IxAtRest

RestExceptVer ==
    FaceAtRest /\ RegAtRest /\ UrlAtRest /\ CbAtRest /\ IdxAtRest /\ AggRunAtRest /\ FetchAtRest /\ CodecAtRest /\ DeadAtRest /\ ShutAtRest /\ ReadyAtRest /\ JobAtRest /\ ModAtRest /\ MergeAtRest /\ BulkAtRest /\ RecAtRest /\ SinkAtRest /\ LoopAtRest /\ IxAtRest

RestExceptFace ==
    RegAtRest /\ UrlAtRest /\ CbAtRest /\ IdxAtRest /\ AggRunAtRest /\ FetchAtRest /\ CodecAtRest /\ DeadAtRest /\ ShutAtRest /\ ReadyAtRest /\ VerAtRest /\ JobAtRest /\ ModAtRest /\ MergeAtRest /\ BulkAtRest /\ RecAtRest /\ SinkAtRest /\ LoopAtRest /\ IxAtRest

RestExceptUrl ==
    CbAtRest /\ IdxAtRest /\ AggRunAtRest /\ FetchAtRest /\ CodecAtRest /\ DeadAtRest /\ ShutAtRest /\ ReadyAtRest /\ RegAtRest /\ FaceAtRest /\ VerAtRest /\ JobAtRest /\ ModAtRest /\ MergeAtRest /\ BulkAtRest /\ RecAtRest /\ SinkAtRest /\ LoopAtRest /\ IxAtRest

RestExceptReg ==
    UrlAtRest /\ CbAtRest /\ IdxAtRest /\ AggRunAtRest /\ FetchAtRest /\ CodecAtRest /\ DeadAtRest /\ ShutAtRest /\ ReadyAtRest /\ FaceAtRest /\ VerAtRest /\ JobAtRest /\ ModAtRest /\ MergeAtRest /\ BulkAtRest /\ RecAtRest /\ SinkAtRest /\ LoopAtRest /\ IxAtRest

RestExceptFetch == AggRunAtRest /\ CodecAtRest /\ DeadAtRest /\ ShutAtRest /\ ReadyAtRest /\ IdxAtRest /\ CbAtRest /\ UrlAtRest /\ RegAtRest /\ FaceAtRest /\ VerAtRest /\ JobAtRest /\ ModAtRest /\ MergeAtRest /\ BulkAtRest /\ RecAtRest /\ SinkAtRest /\ LoopAtRest /\ IxAtRest
RestExceptCodec == AggRunAtRest /\ FetchAtRest /\ DeadAtRest /\ ShutAtRest /\ ReadyAtRest /\ IdxAtRest /\ CbAtRest /\ UrlAtRest /\ RegAtRest /\ FaceAtRest /\ VerAtRest /\ JobAtRest /\ ModAtRest /\ MergeAtRest /\ BulkAtRest /\ RecAtRest /\ SinkAtRest /\ LoopAtRest /\ IxAtRest
RestExceptDead == AggRunAtRest /\ FetchAtRest /\ CodecAtRest /\ ShutAtRest /\ ReadyAtRest /\ IdxAtRest /\ CbAtRest /\ UrlAtRest /\ RegAtRest /\ FaceAtRest /\ VerAtRest /\ JobAtRest /\ ModAtRest /\ MergeAtRest /\ BulkAtRest /\ RecAtRest /\ SinkAtRest /\ LoopAtRest /\ IxAtRest
RestExceptShut == AggRunAtRest /\ FetchAtRest /\ CodecAtRest /\ DeadAtRest /\ ReadyAtRest /\ IdxAtRest /\ CbAtRest /\ UrlAtRest /\ RegAtRest /\ FaceAtRest /\ VerAtRest /\ JobAtRest /\ ModAtRest /\ MergeAtRest /\ BulkAtRest /\ RecAtRest /\ SinkAtRest /\ LoopAtRest /\ IxAtRest
RestExceptIdx ==
    AggRunAtRest /\ FetchAtRest /\ CodecAtRest /\ DeadAtRest /\ ShutAtRest /\ ReadyAtRest
    /\ CbAtRest /\ UrlAtRest /\ RegAtRest /\ FaceAtRest /\ VerAtRest /\ JobAtRest /\ ModAtRest /\ MergeAtRest /\ BulkAtRest /\ RecAtRest /\ SinkAtRest /\ LoopAtRest /\ IxAtRest
RestExceptCb ==
    AggRunAtRest /\ FetchAtRest /\ CodecAtRest /\ DeadAtRest /\ ShutAtRest /\ ReadyAtRest
    /\ IdxAtRest /\ UrlAtRest /\ RegAtRest /\ FaceAtRest /\ VerAtRest /\ JobAtRest /\ ModAtRest /\ MergeAtRest /\ BulkAtRest /\ RecAtRest /\ SinkAtRest /\ LoopAtRest /\ IxAtRest
RestExceptReady == AggRunAtRest /\ FetchAtRest /\ CodecAtRest /\ DeadAtRest /\ ShutAtRest /\ IdxAtRest /\ CbAtRest /\ UrlAtRest /\ RegAtRest /\ FaceAtRest /\ VerAtRest /\ JobAtRest /\ ModAtRest /\ MergeAtRest /\ BulkAtRest /\ RecAtRest /\ SinkAtRest /\ LoopAtRest /\ IxAtRest

BusAtRest ==
    /\ stream = <<>>
    /\ groupExists = FALSE
    /\ lastDelivered = 0
    /\ pending = [c \in Consumers |-> {}]
    /\ idle = [e \in Entries |-> 0]
    /\ delivered = [e \in Entries |-> 0]
    /\ pc = [c \in Consumers |-> "stopped"]
    /\ batch = [c \in Consumers |-> <<>>]
    /\ cur = [c \in Consumers |-> NoEntry]
    /\ result = [c \in Consumers |-> "none"]
    /\ scan = [c \in Consumers |-> <<>>]
    /\ checkDue = [c \in Consumers |-> FALSE]
    /\ startup = [c \in Consumers |-> FALSE]
    /\ dlq_publisher = FALSE
    /\ hasCrashed = FALSE
    /\ orphaned = {}
    /\ destroyed = FALSE
    /\ handled = {}
    /\ ackCalls = [e \in Entries |-> 0]
    /\ dlqSink = [e \in Entries |-> 0]

\* the bus client, the publisher, the worker and the fan-in at rest
BaseAtRest ==
    /\ BusAtRest
    /\ readCount = WORKER_READ_COUNT
    /\ PubAtRest
    /\ WorkerAtRest
    /\ AggAtRest

\* nothing appended, no group yet, both consumer processes about to call consume;
\* the workers pass count=1, the default is count=10
InitBus ==
    /\ BusAtRest
    /\ ExtAtRest
    /\ readCount \in {WORKER_READ_COUNT, DEFAULT_READ_COUNT}
    /\ PubAtRest
    /\ WorkerAtRest
    /\ AggAtRest

NextBus ==
    \/ \E c \in Consumers : ConsumerStep(c)
    \/ \E c \in Consumers : Crash(c)
    \/ AppendEntry
    \/ Tick

SpecBus == InitBus /\ [][NextBus]_vars

\* the consumers that keep running their consume loop: the bus answers their reads
\* again and again, their handlers end, and time passes
\* consume called with its default count, so that one reply can carry several entries
InitBusFair ==
    /\ InitBus
    /\ readCount = DEFAULT_READ_COUNT

FairSpecBus ==
    /\ InitBusFair
    /\ [][NextBus]_vars
    /\ WF_vars(Tick)
    /\ \A c \in Consumers \ CrashConsumers :
          /\ WF_vars(ConsumerStep(c))
          /\ SF_vars(ReadDeliver(c))

(***************************************************************************)
(* Properties of the bus client                                            *)
(***************************************************************************)
InHandler(c) == pc[c] \in {"handler", "claim_handler"}

Owners(e) == {c \in Consumers : e \in pending[c]}

ScanIds(c) == {scan[c][i].message_id : i \in 1..Len(scan[c])}

C3_AckIffReturned ==
    [][\A c \in Consumers :
          (pc[c] = "after" /\ pc'[c] \notin {"after", "stopped"})
              => /\ result[c] \in {"returned", "raised"}
                 /\ result[c] = "returned"
                      => /\ cur[c] \notin GroupPending'
                         /\ ackCalls'[cur[c]] = Min(ackCalls[cur[c]] + 1, 2)
                 /\ result[c] = "raised"
                      => /\ ackCalls' = ackCalls
                         /\ pending' = pending
                 /\ IF batch[c] # <<>>
                    THEN pc'[c] = "handler" /\ cur'[c] = Head(batch[c])
                    ELSE pc'[c] = "loop"]_vars

\* entry 1 was acked after its handler returned, entry 2 stays pending after its
\* handler raised, and the consumer is back in the loop
C3_Witness ==
    \E c \in Consumers :
        /\ pc[c] = "loop"
        /\ ackCalls[1] = 1
        /\ 1 \notin GroupPending
        /\ 2 \in pending[c]
        /\ delivered[2] = 1
        /\ ackCalls[2] = 0
        /\ Owners(1) = {}

C7_NoSecondAck == \A e \in Entries : ackCalls[e] <= 1

NodeAppend(ns) ==
    IF ns = <<>> \/ ns[Len(ns)] >= NodeMaxEntries
    THEN Append(ns, 1)
    ELSE [ns EXCEPT ![Len(ns)] = @ + 1]

RECURSIVE NodesLen(_)
NodesLen(ns) == IF ns = <<>> THEN 0 ELSE Head(ns) + NodesLen(Tail(ns))

\* MAXLEN ~ maxlen: whole nodes leave from the oldest end as long as what is left
\* still holds maxlen entries
RECURSIVE TrimApprox(_, _)
TrimApprox(ns, maxlen) ==
    IF Len(ns) > 1 /\ NodesLen(Tail(ns)) >= maxlen
    THEN TrimApprox(Tail(ns), maxlen)
    ELSE ns

\* variant: the entry is appended with no trim at all
XAddNoTrim(ns, maxlen) == NodeAppend(ns)

\* redis_client.xadd(stream_name, redis_data, maxlen=maxlen, approximate=True)
XAddMaxlen(ns, maxlen) == TrimApprox(NodeAppend(ns), maxlen)

\* the pipeline of publish_batch: one xadd per message, each with the trim
RECURSIVE XAddPipeline(_, _, _)
XAddPipeline(ns, n, maxlen) ==
    IF n = 0 THEN ns ELSE XAddPipeline(XAddMaxlen(ns, maxlen), n - 1, maxlen)

\* publish(stream_name, data): every producer calls it with the default maxlen
publish ==
    /\ nodes' = XAddMaxlen(nodes, DEFAULT_MAXLEN)
    /\ xlen' = NodesLen(nodes')
    /\ trimmed' = (trimmed \/ xlen' <= xlen)
    /\ UNCHANGED <<extVars, busVars, consumerVars, historyVars, workerVars, aggVars>>

\* publish_batch(stream_name, messages) with 1..MaxBatch messages
publish_batch ==
    /\ \E n \in 1..MaxBatch :
          /\ nodes' = XAddPipeline(nodes, n, DEFAULT_MAXLEN)
          /\ xlen' = NodesLen(nodes')
          /\ trimmed' = (trimmed \/ xlen' < xlen + n)
    /\ UNCHANGED <<extVars, busVars, consumerVars, historyVars, workerVars, aggVars>>

InitPub ==
    /\ PubAtRest
    /\ BusAtRest
    /\ ExtAtRest
    /\ readCount = DEFAULT_READ_COUNT
    /\ WorkerAtRest
    /\ AggAtRest

NextPub ==
    \/ publish
    \/ publish_batch

SpecPub == InitPub /\ [][NextPub]_vars

HandlerKinds == {"analysis", "aggregator", "dlq_processor", "indexer", "base"}

\* the entry of the job is delivered (xreadgroup, or a reclaim of the unacked
\* entry) and consume calls the handler
Deliver ==
    /\ wpc = "idle"
    /\ job \in Jobs
    /\ deliveries' = [deliveries EXCEPT ![job] = @ + 1]
    /\ wpc' = "delivered"
    /\ attempt' = 0
    /\ wresult' = "none"
    /\ UNCHANGED <<handlerKind, job, exhausted, dlqCount, resultCount, wAcked>>
    /\ UNCHANGED <<extVars, busVars, consumerVars, historyVars, pubVars, aggVars>>

\* publish_to_dlq: one publish to the DLQ stream inside try/except Exception: a
\* failure of the publish is logged and swallowed
publish_to_dlq(n, publishOk) == IF publishOk THEN n + 1 ELSE n

\* content_moderation handle_message (image_captioning, image_tagger and
\* scene_recognition have the same body): decode and validate
handle_message_decode ==
    /\ handlerKind = "analysis"
    /\ wpc = "delivered"
    /\ \E input \in {"valid", "invalid", "undecodable"} :
          \/ /\ input = "valid"
             /\ wpc' = "attempt"
             /\ UNCHANGED <<wresult, exhausted>>
          \/ /\ input = "invalid"       \* no mediaId or no mediaUrl: log and return
             /\ wpc' = "ended"
             /\ wresult' = "returned"
             /\ UNCHANGED exhausted
          \/ /\ input = "undecodable"   \* decode_message or int() raises
             /\ wpc' = "except"
             /\ exhausted' = [exhausted EXCEPT ![job] = TRUE]
             /\ UNCHANGED wresult
    /\ UNCHANGED <<handlerKind, job, attempt, deliveries, dlqCount, resultCount, wAcked>>
    /\ UNCHANGED <<extVars, busVars, consumerVars, historyVars, pubVars, aggVars>>

\* handle_message: one pass of "for attempt in range(MAX_RETRIES + 1)": download,
\* model call, publish of the result
handle_message_attempt ==
    /\ handlerKind = "analysis"
    /\ wpc = "attempt"
    /\ \E outcome \in {"ok", "retryable", "other"} :
          \/ /\ outcome = "ok"          \* result published, return
             /\ resultCount' = [resultCount EXCEPT ![job] = @ + 1]
             /\ wpc' = "ended"
             /\ wresult' = "returned"
             /\ UNCHANGED <<attempt, exhausted>>
          \/ /\ outcome = "retryable"   \* RequestException, Timeout, ConnectionError, ValueError
             /\ IF attempt < MAX_RETRIES
                THEN /\ attempt' = attempt + 1
                     /\ UNCHANGED <<wpc, exhausted>>
                ELSE /\ wpc' = "except"
                     /\ exhausted' = [exhausted EXCEPT ![job] = TRUE]
                     /\ UNCHANGED attempt
             /\ UNCHANGED <<wresult, resultCount>>
          \/ /\ outcome = "other"       \* any other exception, the result publish included
             /\ wpc' = "except"
             /\ exhausted' = [exhausted EXCEPT ![job] = TRUE]
             /\ UNCHANGED <<attempt, wresult, resultCount>>
    /\ UNCHANGED <<handlerKind, job, deliveries, dlqCount, wAcked>>
    /\ UNCHANGED <<extVars, busVars, consumerVars, historyVars, pubVars, aggVars>>

\* handle_message: "except Exception": metrics, log, publish_to_dlq, return
handle_message_except ==
    /\ handlerKind = "analysis"
    /\ wpc = "except"
    /\ \E publishOk \in BOOLEAN :
          dlqCount' = [dlqCount EXCEPT ![job] = publish_to_dlq(@, publishOk)]
    /\ wpc' = "ended"
    /\ wresult' = "returned"
    /\ UNCHANGED <<handlerKind, job, attempt, deliveries, exhausted, resultCount, wAcked>>
    /\ UNCHANGED <<extVars, busVars, consumerVars, historyVars, pubVars, aggVars>>

\* post_aggregator handle_message: the whole body is inside try/except Exception
aggregator_handle_message ==
    /\ handlerKind = "aggregator"
    /\ wpc = "delivered"
    /\ \E bodyRaises \in BOOLEAN :
          /\ exhausted' = [exhausted EXCEPT ![job] = bodyRaises]
          /\ wresult' = "returned"
    /\ wpc' = "ended"
    /\ UNCHANGED <<handlerKind, job, attempt, deliveries, dlqCount, resultCount, wAcked>>
    /\ UNCHANGED <<extVars, busVars, consumerVars, historyVars, pubVars, aggVars>>

\* dlq_processor handle_message: the whole body is inside try/except Exception
dlq_handle_message ==
    /\ handlerKind = "dlq_processor"
    /\ wpc = "delivered"
    /\ \E bodyRaises \in BOOLEAN :
          /\ exhausted' = [exhausted EXCEPT ![job] = bodyRaises]
          /\ wresult' = "returned"
    /\ wpc' = "ended"
    /\ UNCHANGED <<handlerKind, job, attempt, deliveries, dlqCount, resultCount, wAcked>>
    /\ UNCHANGED <<extVars, busVars, consumerVars, historyVars, pubVars, aggVars>>

\* es_sync main.message_handler: decode_message, INDEX_MAPPING.get, the PostgreSQL
\* read, the mapping and _flush_batch run with no try/except around them
indexer_message_handler ==
    /\ handlerKind = "indexer"
    /\ wpc = "delivered"
    /\ \E bodyRaises \in BOOLEAN :
          /\ exhausted' = [exhausted EXCEPT ![job] = bodyRaises]
          /\ wresult' = IF bodyRaises THEN "raised" ELSE "returned"
    /\ wpc' = "ended"
    /\ UNCHANGED <<handlerKind, job, attempt, deliveries, dlqCount, resultCount, wAcked>>
    /\ UNCHANGED <<extVars, busVars, consumerVars, historyVars, pubVars, aggVars>>

\* BaseWorker._message_handler: decode_message and process_message with no
\* try/except around them
base_message_handler ==
    /\ handlerKind = "base"
    /\ wpc = "delivered"
    /\ \E bodyRaises \in BOOLEAN :
          /\ exhausted' = [exhausted EXCEPT ![job] = bodyRaises]
          /\ wresult' = IF bodyRaises THEN "raised" ELSE "returned"
    /\ wpc' = "ended"
    /\ UNCHANGED <<handlerKind, job, attempt, deliveries, dlqCount, resultCount, wAcked>>
    /\ UNCHANGED <<extVars, busVars, consumerVars, historyVars, pubVars, aggVars>>

\* the next thing the worker does with the job's entry after it was left unacked:
\* it comes back through a reclaim, MaxDeliveries times at most
AfterUnacked ==
    IF deliveries[job] < MaxDeliveries THEN job ELSE job + 1

\* consume: xack after the handler returned; after a raise the entry stays pending
ConsumeAfter ==
    /\ wpc = "ended"
    /\ IF AckAfterHandler(wresult)
       THEN /\ wAcked' = [wAcked EXCEPT ![job] = TRUE]
            /\ job' = job + 1
       ELSE /\ job' = AfterUnacked
            /\ UNCHANGED wAcked
    /\ wpc' = "idle"
    /\ UNCHANGED <<handlerKind, attempt, wresult, deliveries, exhausted, dlqCount, resultCount>>
    /\ UNCHANGED <<extVars, busVars, consumerVars, historyVars, pubVars, aggVars>>

\* the worker process is killed after the handler ended and before the xack; it
\* starts again and the entry comes back through the startup reclaim
WorkerKilled ==
    /\ wpc = "ended"
    /\ deliveries[job] < MaxDeliveries
    /\ wpc' = "idle"
    /\ UNCHANGED <<handlerKind, job, attempt, wresult, deliveries, exhausted, dlqCount,
                   resultCount, wAcked>>
    /\ UNCHANGED <<extVars, busVars, consumerVars, historyVars, pubVars, aggVars>>

InitWorker ==
    /\ handlerKind \in HandlerKinds
    /\ job = 1
    /\ wpc = "idle"
    /\ attempt = 0
    /\ wresult = "none"
    /\ deliveries = [j \in Jobs |-> 0]
    /\ exhausted = [j \in Jobs |-> FALSE]
    /\ dlqCount = [j \in Jobs |-> 0]
    /\ resultCount = [j \in Jobs |-> 0]
    /\ wAcked = [j \in Jobs |-> FALSE]
    /\ BusAtRest
    /\ ExtAtRest
    /\ readCount = WORKER_READ_COUNT
    /\ PubAtRest
    /\ AggAtRest

NextWorker ==
    \/ Deliver
    \/ handle_message_decode
    \/ handle_message_attempt
    \/ handle_message_except
    \/ aggregator_handle_message
    \/ dlq_handle_message
    \/ indexer_message_handler
    \/ base_message_handler
    \/ ConsumeAfter
    \/ WorkerKilled

SpecWorker == InitWorker /\ [][NextWorker]_vars

\* the handler invocations on job j are over: the worker has moved on, or the
\* last one has just ended
HandlingOver(j) == j < job \/ (j = job /\ wpc = "ended")

\* C5: for every image job whose handler ended with an exception that survived the
\* retry budget, exactly one entry was appended to the DLQ stream
C5_ExactlyOneDlqEntry ==
    \A j \in Jobs :
        (handlerKind = "analysis" /\ exhausted[j] /\ HandlingOver(j)) => dlqCount[j] = 1

\* C6: every handler handed to consume returns normally whatever the entry, and
\* every entry the worker is done with was acked
C6_HandlersAlwaysReturn ==
    /\ wpc = "ended" => wresult = "returned"
    /\ \A j \in Jobs : j < job => wAcked[j]

(***************************************************************************)
(* The analysis workers' result entries and the post aggregator            *)
(* (services/post_aggregator/worker.py)                                    *)
(***************************************************************************)
REQUIRED_SERVICES == {"moderation", "tagging", "scene_recognition", "image_captioning"}
OPTIONAL_SERVICES == {"face"}

\* the workers that publish one result entry per media id
AnalysisWorkers == {"content_moderation", "image_tagger", "scene_recognition",
                    "image_captioning"}
FaceWorker == "face_recognition"
Workers == AnalysisWorkers \cup {FaceWorker}

\* the "service" field of the worker's result_message; the face worker's entry has
\* no such field
ServiceField(w) ==
    CASE w = "content_moderation" -> "moderation"
      [] w = "image_tagger" -> "tagging"
      [] w = "scene_recognition" -> "scene_recognition"
      [] w = "image_captioning" -> "captioning"
      [] OTHER -> ""

\* the result entry of worker w for media id m ("worker" is history: who wrote it)
ResultEntry(m, w) ==
    [mediaId |-> m, service |-> ServiceField(w), facesDetected |-> (w = FaceWorker),
     worker |-> w]

\* _merge_media_entry: the service recorded for an entry
MergedService(entry) ==
    IF entry.service = "" /\ entry.facesDetected THEN "face" ELSE entry.service

\* _merge_media_entry applied to every entry of a set
_merge_media_entry(map, entries) ==
    [m \in MediaIds |->
        map[m] \cup {MergedService(en) : en \in {x \in entries : x.mediaId = m
                                                   /\ MergedService(x) # ""}}]

\* _has_required_services(media_map, expected_media_ids, ...) with the expected ids
\* given: every expected id has a record with all of REQUIRED_SERVICES
_has_required_services(map) ==
    \A m \in MediaIds : map[m] # {} /\ REQUIRED_SERVICES \subseteq map[m]

\* a worker publishes its result entry for a media id of the post
WorkerPublish ==
    /\ \E w \in Workers, m \in MediaIds :
          /\ <<m, w>> \notin published
          /\ published' = published \cup {<<m, w>>}
          /\ IF w = FaceWorker
             THEN faces' = faces \cup {ResultEntry(m, w)} /\ UNCHANGED insights
             ELSE insights' = insights \cup {ResultEntry(m, w)} /\ UNCHANGED faces
    /\ UNCHANGED <<post_buffer, media_map, mergedFrom, apc, deadlinePassed, endedBy>>
    /\ UNCHANGED <<extVars, busVars, consumerVars, historyVars, pubVars, workerVars>>

\* collect_media_insights is entered for the post (no initial insights, the expected
\* media ids given): reader groups at "0", deadline = now + AGGREGATION_WAIT_SECONDS
AggStart ==
    /\ apc = "idle"
    /\ apc' = "check"
    /\ UNCHANGED <<published, insights, faces, post_buffer, media_map, mergedFrom,
                   deadlinePassed, endedBy>>
    /\ UNCHANGED <<extVars, busVars, consumerVars, historyVars, pubVars, workerVars>>

\* top of "while True": leave through completeness, else through the deadline
AggCheck ==
    /\ apc = "check"
    /\ IF _has_required_services(media_map)
       THEN endedBy' = "COMPLETE" /\ apc' = "done"
       ELSE IF deadlinePassed
            THEN endedBy' = "TIMEOUT" /\ apc' = "done"
            ELSE endedBy' = endedBy /\ apc' = "drain_insights"
    /\ UNCHANGED <<published, insights, faces, post_buffer, media_map, mergedFrom,
                   deadlinePassed>>
    /\ UNCHANGED <<extVars, busVars, consumerVars, historyVars, pubVars, workerVars>>

\* _drain_stream(INSIGHTS_STREAM): xreadgroup('>', block=0) returns once the stream
\* has undelivered entries; they are buffered and acked
AggDrainInsights ==
    /\ apc = "drain_insights"
    /\ insights # {}
    /\ post_buffer' = post_buffer \cup insights
    /\ insights' = {}
    /\ apc' = "drain_faces"
    /\ UNCHANGED <<published, faces, media_map, mergedFrom, deadlinePassed, endedBy>>
    /\ UNCHANGED <<extVars, busVars, consumerVars, historyVars, pubVars, workerVars>>

\* _drain_stream(FACES_STREAM): the same on the faces stream
AggDrainFaces ==
    /\ apc = "drain_faces"
    /\ faces # {}
    /\ post_buffer' = post_buffer \cup faces
    /\ faces' = {}
    /\ apc' = "merge"
    /\ UNCHANGED <<published, insights, media_map, mergedFrom, deadlinePassed, endedBy>>
    /\ UNCHANGED <<extVars, busVars, consumerVars, historyVars, pubVars, workerVars>>

\* _drain_stream: xreadgroup raises (bus error): logged, nothing is read
AggDrainError ==
    /\ apc \in {"drain_insights", "drain_faces"}
    /\ apc' = IF apc = "drain_insights" THEN "drain_faces" ELSE "merge"
    /\ UNCHANGED <<published, insights, faces, post_buffer, media_map, mergedFrom,
                   deadlinePassed, endedBy>>
    /\ UNCHANGED <<extVars, busVars, consumerVars, historyVars, pubVars, workerVars>>

\* _fetch_buffered_entries, then the new entries are merged; with none, sleep
\* AGGREGATION_POLL_INTERVAL; back to the top of the loop
AggMerge ==
    /\ apc = "merge"
    /\ media_map' = _merge_media_entry(media_map, post_buffer)
    /\ mergedFrom' = [m \in MediaIds |->
                         mergedFrom[m] \cup {en.worker : en \in {x \in post_buffer : x.mediaId = m}}]
    /\ post_buffer' = {}
    /\ apc' = "check"
    /\ UNCHANGED <<published, insights, faces, deadlinePassed, endedBy>>
    /\ UNCHANGED <<extVars, busVars, consumerVars, historyVars, pubVars, workerVars>>

\* AGGREGATION_WAIT_SECONDS have passed since the loop was entered
DeadlinePasses ==
    /\ apc \notin {"idle", "done"}
    /\ ~deadlinePassed
    /\ deadlinePassed' = TRUE
    /\ UNCHANGED <<published, insights, faces, post_buffer, media_map, mergedFrom, apc,
                   endedBy>>
    /\ UNCHANGED <<extVars, busVars, consumerVars, historyVars, pubVars, workerVars>>

InitAgg ==
    /\ AggAtRest
    /\ BusAtRest
    /\ ExtAtRest
    /\ readCount = WORKER_READ_COUNT
    /\ PubAtRest
    /\ WorkerAtRest

NextAgg ==
    \/ WorkerPublish
    \/ AggStart
    \/ AggCheck
    \/ AggDrainInsights
    \/ AggDrainFaces
    \/ AggDrainError
    \/ AggMerge
    \/ DeadlinePasses

SpecAgg == InitAgg /\ [][NextAgg]_vars

\* the result entries of all four analysis workers were merged for every expected
\* media id
AllRequiredMerged == \A m \in MediaIds : AnalysisWorkers \subseteq mergedFrom[m]

\* C10: when the moderation, tagging, scene and captioning results of every expected
\* media id have reached the aggregator, the polling loop does not end through the
\* deadline
C10_CompleteNotTimeout == (endedBy = "TIMEOUT") => ~AllRequiredMerged

(***************************************************************************)
(* The post aggregator's handle_message: collect, aggregate, publish; two  *)
(* triggers for one post                                                    *)
(***************************************************************************)
\* aggregate_insights over the finalized media map: one media insight per media id
\* with a record; tags, scenes, captions, faces and the moderation verdict come from
\* the media ids whose result of that service was merged
aggregate_insights(map) ==
    [mediaCount |-> Cardinality({m \in MediaIds : map[m] # {}}),
     tags |-> {m \in MediaIds : "tagging" \in map[m]},
     scenes |-> {m \in MediaIds : "scene_recognition" \in map[m]},
     totalFaces |-> Cardinality({m \in MediaIds : "face" \in map[m]}),
     moderation |-> {m \in MediaIds : "moderation" \in map[m]},
     captions |-> {m \in MediaIds : "captioning" \in map[m]}]

\* handle_message after collect_media_insights returned: aggregate_insights and
\* publisher.publish(STREAM_OUTPUT, result_message)
AggEmit ==
    /\ apc = "done"
    /\ apc' = "emitted"
    /\ emitted' = [emitted EXCEPT ![run] = aggregate_insights(media_map)]
    /\ resultsAt' = [resultsAt EXCEPT ![run] = published]
    /\ UNCHANGED <<published, insights, faces, post_buffer, media_map, mergedFrom,
                   deadlinePassed, endedBy, run>>
    /\ UNCHANGED <<notAggRun, busVars, consumerVars, historyVars, pubVars, workerVars>>

\* the second trigger for the same post is delivered: handle_message calls
\* collect_media_insights again (a fresh media_map and deadline; the reader groups
\* and the module's _post_buffer are the ones the first run left)
AggNextTrigger ==
    /\ apc = "emitted"
    /\ run = 1
    /\ run' = 2
    /\ apc' = "check"
    /\ media_map' = [m \in MediaIds |-> {}]
    /\ mergedFrom' = [m \in MediaIds |-> {}]
    /\ deadlinePassed' = FALSE
    /\ endedBy' = "none"
    /\ UNCHANGED <<published, insights, faces, post_buffer, emitted, resultsAt>>
    /\ UNCHANGED <<notAggRun, busVars, consumerVars, historyVars, pubVars, workerVars>>

NextAggRuns ==
    \/ NextAgg
    \/ AggEmit
    \/ AggNextTrigger

\* the aggregator process keeps running and time passes; a blocking read returns
\* when its stream holds an undelivered entry; nothing obliges the workers to
\* publish or the bus to fail
FairSpecAggRuns ==
    /\ InitAgg
    /\ [][NextAggRuns]_vars
    /\ WF_vars(AggStart)
    /\ WF_vars(AggCheck)
    /\ WF_vars(AggDrainInsights)
    /\ WF_vars(AggDrainFaces)
    /\ WF_vars(AggMerge)
    /\ WF_vars(DeadlinePasses)
    /\ WF_vars(AggEmit)
    /\ WF_vars(AggNextTrigger)

\* C11: once the aggregator has received the trigger and entered the polling loop,
\* the enriched record of that trigger is eventually published, whether or not any
\* further result entry appears on the two result streams
C11_DeadlineEmits == (apc = "check" /\ run = 1) ~> (emitted[1] # NoRecord)

\* C12: two triggers for the same post over the same published per-image results
\* publish records with the same aggregate fields
C12_SameAggregateTwice ==
    (emitted[1] # NoRecord /\ emitted[2] # NoRecord /\ resultsAt[1] = resultsAt[2])
        => emitted[1] = emitted[2]

(***************************************************************************)
(* The analysis workers' handle_message and the job's mediaUrl             *)
(* (services/*/worker.py, shared/utils/url_validator.py)                   *)
(***************************************************************************)
\* validate_url: the URL is rejected when it is empty, or when SSRF checks are on
\* and its hostname resolves to a private address; "allowed" hosts pass
validate_url(host, enabled) ==
    IF host = "none" THEN "URLValidationError"
    ELSE IF enabled /\ host = "private" THEN "URLValidationError"
    ELSE "ok"

\* consume delivers the job's entry to handle_message
FetchDeliver ==
    /\ fpc = "idle"
    /\ fjob \in Jobs
    /\ fpc' = "decoded"
    /\ fattempt' = 0
    /\ UNCHANGED <<ssrf_check_enabled, mediaUrl, fjob, httpGets, failures, fdlq, facked>>
    /\ UNCHANGED <<notFetch, baseVars>>

\* handle_message: "if not media_id or not media_url: return", else the retry loop
handle_message_check ==
    /\ fpc = "decoded"
    /\ fpc' = IF mediaUrl[fjob] = "none" THEN "ended" ELSE "download"
    /\ UNCHANGED <<ssrf_check_enabled, mediaUrl, fjob, fattempt, httpGets, failures, fdlq,
                   facked>>
    /\ UNCHANGED <<notFetch, baseVars>>

\* the loop's next pass, or the raise once attempt = MAX_RETRIES
RetryOrRaise ==
    IF fattempt < MAX_RETRIES
    THEN fattempt' = fattempt + 1 /\ fpc' = "download"
    ELSE fattempt' = fattempt /\ fpc' = "except"

\* handle_message: requests.get(media_url, timeout=30) and raise_for_status
handle_message_download ==
    /\ fpc = "download"
    /\ httpGets' = [httpGets EXCEPT ![fjob] = @ + 1]
    /\ \E downloaded \in BOOLEAN :
          IF downloaded
          THEN fpc' = "infer" /\ UNCHANGED fattempt
          ELSE RetryOrRaise
    /\ UNCHANGED <<ssrf_check_enabled, mediaUrl, fjob, failures, fdlq, facked>>
    /\ UNCHANGED <<notFetch, baseVars>>

\* handle_message: the model call and the publish of the result
handle_message_infer ==
    /\ fpc = "infer"
    /\ \E outcome \in {"ok", "retryable", "other"} :
          CASE outcome = "ok" -> fpc' = "ended" /\ UNCHANGED fattempt
            [] outcome = "retryable" -> RetryOrRaise
            [] OTHER -> fpc' = "except" /\ UNCHANGED fattempt
    /\ UNCHANGED <<ssrf_check_enabled, mediaUrl, fjob, httpGets, failures, fdlq, facked>>
    /\ UNCHANGED <<notFetch, baseVars>>

\* handle_message: "except Exception": record_failure, publish_to_dlq, return
handle_message_failed ==
    /\ fpc = "except"
    /\ failures' = [failures EXCEPT ![fjob] = @ + 1]
    /\ \E publishOk \in BOOLEAN :
          fdlq' = [fdlq EXCEPT ![fjob] = publish_to_dlq(@, publishOk)]
    /\ fpc' = "ended"
    /\ UNCHANGED <<ssrf_check_enabled, mediaUrl, fjob, fattempt, httpGets, facked>>
    /\ UNCHANGED <<notFetch, baseVars>>

\* consume: the handler returned, the entry is acked
FetchAck ==
    /\ fpc = "ended"
    /\ facked' = [facked EXCEPT ![fjob] = TRUE]
    /\ fjob' = fjob + 1
    /\ fpc' = "idle"
    /\ UNCHANGED <<ssrf_check_enabled, mediaUrl, fattempt, httpGets, failures, fdlq>>
    /\ UNCHANGED <<notFetch, baseVars>>

\* jobs with any kind of mediaUrl, SSRF checks configured on or off
InitFetch ==
    /\ ssrf_check_enabled \in BOOLEAN
    /\ mediaUrl \in [Jobs -> UrlHosts]
    /\ fjob = 1
    /\ fpc = "idle"
    /\ fattempt = 0
    /\ httpGets = [j \in Jobs |-> 0]
    /\ failures = [j \in Jobs |-> 0]
    /\ fdlq = [j \in Jobs |-> 0]
    /\ facked = [j \in Jobs |-> FALSE]
    /\ RestExceptFetch
    /\ BaseAtRest

NextFetch ==
    \/ FetchDeliver
    \/ handle_message_check
    \/ handle_message_download
    \/ handle_message_infer
    \/ handle_message_failed
    \/ FetchAck

SpecFetch == InitFetch /\ [][NextFetch]_vars

\* C13: for a job whose mediaUrl validate_url rejects as resolving to a private
\* address, no HTTP request is issued to the URL and no DLQ entry is written, and
\* once the entry is acked one failure was counted
C13_NoPrivateFetch ==
    \A j \in Jobs :
        (ssrf_check_enabled /\ mediaUrl[j] = "private"
            /\ validate_url(mediaUrl[j], ssrf_check_enabled) = "URLValidationError")
        => /\ httpGets[j] = 0
           /\ fdlq[j] = 0
           /\ facked[j] => failures[j] = 1

(***************************************************************************)
(* The bus codec (shared/redis_streams/utils.py) over Python values        *)
(***************************************************************************)
DigitChars == <<"0", "1", "2", "3", "4", "5", "6", "7", "8", "9">>
IsDigit(ch) == \E d \in 1..10 : DigitChars[d] = ch
DigitVal(ch) == (CHOOSE d \in 1..10 : DigitChars[d] = ch) - 1
Quote == "\""

\* str(n) of a non-negative int
RECURSIVE IntToText(_)
IntToText(n) ==
    IF n < 10 THEN <<DigitChars[n + 1]>>
    ELSE IntToText(n \div 10) \o <<DigitChars[(n % 10) + 1]>>

\* int of a digit string
RECURSIVE TextToInt(_)
TextToInt(text) ==
    IF text = <<>> THEN 0
    ELSE 10 * TextToInt(SubSeq(text, 1, Len(text) - 1)) + DigitVal(text[Len(text)])

\* a JSON number without sign, fraction or exponent: digits, no leading zero
IsJsonInt(text) ==
    /\ Len(text) >= 1
    /\ \A i \in 1..Len(text) : IsDigit(text[i])
    /\ Len(text) = 1 \/ text[1] # "0"

\* a JSON string without escapes
IsJsonString(text) ==
    /\ Len(text) >= 2
    /\ text[1] = Quote
    /\ text[Len(text)] = Quote
    /\ \A i \in 2..(Len(text) - 1) : text[i] \notin {Quote, "\\"}

Inner(text) == SubSeq(text, 2, Len(text) - 1)

\* where the ": " between the key and the value of a one-pair JSON object is
PairSplits(text) ==
    {i \in 2..(Len(text) - 2) :
        /\ text[i] = ":"
        /\ text[i + 1] = " "
        /\ IsJsonString(SubSeq(text, 1, i - 1))
        /\ IsJsonString(SubSeq(text, i + 2, Len(text)))}

\* json.dumps of a list of at most one int, or of a dict of one str pair
json_dumps(value) ==
    IF value.t = "list"
    THEN IF value.v = <<>> THEN <<"[", "]">>
         ELSE <<"[">> \o IntToText(value.v[1]) \o <<"]">>
    ELSE <<"{", Quote>> \o value.v[1] \o <<Quote, ":", " ", Quote>> \o value.v[2]
            \o <<Quote, "}">>

\* json.loads on the texts that occur here: numbers, true / false / null, strings,
\* lists of at most one number, objects of one string pair; ValueError otherwise
json_loads(text) ==
    IF IsJsonInt(text) THEN PyInt(TextToInt(text))
    ELSE IF text = <<"t", "r", "u", "e">> THEN PyBool(TRUE)
    ELSE IF text = <<"f", "a", "l", "s", "e">> THEN PyBool(FALSE)
    ELSE IF text = <<"n", "u", "l", "l">> THEN PyNone
    ELSE IF IsJsonString(text) THEN PyStr(Inner(text))
    ELSE IF Len(text) >= 2 /\ text[1] = "[" /\ text[Len(text)] = "]"
         THEN IF Inner(text) = <<>> THEN PyList(<<>>)
              ELSE IF IsJsonInt(Inner(text)) THEN PyList(<<TextToInt(Inner(text))>>)
              ELSE ValueError
    ELSE IF Len(text) >= 2 /\ text[1] = "{" /\ text[Len(text)] = "}"
              /\ PairSplits(Inner(text)) # {}
         THEN LET in == Inner(text)
                  i == CHOOSE k \in PairSplits(in) : TRUE
              IN PyDict(Inner(SubSeq(in, 1, i - 1)), Inner(SubSeq(in, i + 2, Len(in))))
    ELSE ValueError

\* str(value) of a str or an int
py_str(value) == IF value.t = "int" THEN IntToText(value.v) ELSE value.v

\* encode_message: the encoding of one value
encode_value(value) ==
    IF value.t \in {"list", "dict"} THEN json_dumps(value)
    ELSE IF value.t = "bool"
         THEN IF value.v THEN <<"t", "r", "u", "e">> ELSE <<"f", "a", "l", "s", "e">>
    ELSE IF value.t = "none" THEN <<>>
    ELSE py_str(value)

\* decode_message: the decoding of one value
decode_value(text) ==
    IF json_loads(text) = ValueError THEN PyStr(text) ELSE json_loads(text)

encode_message(data) == [f \in DOMAIN data |-> encode_value(data[f])]
decode_message(data) == [f \in DOMAIN data |-> decode_value(data[f])]

\* the strings a field of a bus entry can hold here: a word, a number, a number
\* with a leading zero, 'true', 'null', a JSON list, the empty string
FieldTexts ==
    {<<"a", "b", "c">>, <<"1", "2", "3">>, <<"0", "7">>, <<"t", "r", "u", "e">>,
     <<"n", "u", "l", "l">>, <<"[", "1", "]">>, <<>>}

\* the values of a field map handed to encode_message
FieldValues ==
    {PyStr(text) : text \in FieldTexts}
        \cup {PyInt(0), PyInt(123), PyBool(TRUE), PyBool(FALSE), PyNone, PyList(<<>>), PyList(<<7>>),
              PyDict(<<"k">>, <<"v">>)}

\* a producer encodes the entry
Encode ==
    /\ encoded = {}
    /\ encoded' = {encode_message(message)}
    /\ UNCHANGED <<message, decoded>>
    /\ UNCHANGED <<notCodec, baseVars>>

\* a handler decodes what it was delivered
Decode ==
    /\ encoded # {}
    /\ decoded = {}
    /\ decoded' = {decode_message(e) : e \in encoded}
    /\ UNCHANGED <<message, encoded>>
    /\ UNCHANGED <<notCodec, baseVars>>

InitCodec ==
    /\ message \in [Fields -> FieldValues]
    /\ encoded = {}
    /\ decoded = {}
    /\ RestExceptCodec
    /\ BaseAtRest

NextCodec ==
    \/ Encode
    \/ Decode

SpecCodec == InitCodec /\ [][NextCodec]_vars

\* C15: decoding the encoding of a field map gives the field map back
C15_DecodeEncode == decoded # {} => decoded = {message}

(***************************************************************************)
(* Dead letters: publish_to_dlq (shared/utils/retry.py), the publisher's   *)
(* str() of every value, and the DLQ processor's handle_message            *)
(***************************************************************************)
\* repr of a bytes object
py_repr_bytes(text) == <<"b", "'">> \o text \o <<"'">>

\* the "key: value" items of the repr of a dict with bytes keys and values
RECURSIVE py_repr_items(_, _)
py_repr_items(data, i) ==
    IF i > Len(JobFields) THEN <<>>
    ELSE py_repr_bytes(<<JobFields[i]>>) \o <<":", " ">> \o py_repr_bytes(data[i])
            \o (IF i < Len(JobFields) THEN <<",", " ">> ELSE <<>>)
            \o py_repr_items(data, i + 1)

\* str() of the dict consume hands to the handler (redis client with
\* decode_responses=False: bytes keys and values)
py_str_dict(data) == <<"{">> \o py_repr_items(data, 1) \o <<"}">>

\* publish_to_dlq then RedisStreamPublisher.publish: the fields of the DLQ entry
\* as stored, every value passed through str()
dlq_message(data, service_name, retry_count) ==
    [originalMessageId |-> <<"1-0">>,
     originalData |-> py_str_dict(data),
     service |-> <<service_name>>,
     retryCount |-> py_str(PyInt(retry_count))]

\* the worker's handler failed on the entry: publish_to_dlq(original_data=data);
\* a failing publish is swallowed and leaves no DLQ entry
WorkerToDlq ==
    /\ dlqStream = {}
    /\ ~dlqHandled
    /\ \E publishOk \in BOOLEAN, retry_count \in {0, MAX_RETRIES} :
          IF publishOk
          THEN dlqStream' = {dlq_message(original, failedService, retry_count)}
               /\ UNCHANGED dlqHandled
          ELSE dlqHandled' = TRUE /\ UNCHANGED dlqStream
    /\ UNCHANGED <<dlq_auto_retry, original, failedService, retryStream>>
    /\ UNCHANGED <<notDead, baseVars>>

\* dlq_processor handle_message: what original_data becomes, as key / value pairs
original_data_of(raw) ==
    IF raw.t = "str"
    THEN IF json_loads(raw.v) = ValueError THEN {<<(<<"raw">>), raw.v>>}
         ELSE IF json_loads(raw.v).t = "dict"
              THEN {<<json_loads(raw.v).v[1], json_loads(raw.v).v[2]>>}
              ELSE {}
    ELSE IF raw.t = "dict" THEN {<<raw.v[1], raw.v[2]>>}
    ELSE {<<(<<"raw">>), encode_value(raw)>>}

\* dlq_processor handle_message: the retry_message it publishes
retry_message(entry) ==
    original_data_of(decode_value(entry.originalData))
        \cup {<<(<<"dlqRetry">>), <<"t", "r", "u", "e">> >>,
              <<(<<"dlqOriginalService">>), py_str(decode_value(entry.service))>>,
              <<(<<"dlqOriginalMessageId">>), py_str(decode_value(entry.originalMessageId))>>}

\* the DLQ processor is delivered the DLQ entry: logs it, and with DLQ_AUTO_RETRY
\* re-publishes to post-image-processing
dlq_processor_handle_message ==
    /\ dlqStream # {}
    /\ ~dlqHandled
    /\ dlqHandled' = TRUE
    /\ retryStream' = IF dlq_auto_retry THEN {retry_message(e) : e \in dlqStream} ELSE {}
    /\ UNCHANGED <<dlq_auto_retry, original, failedService, dlqStream>>
    /\ UNCHANGED <<notDead, baseVars>>

\* job entries with a numeric or a malformed mediaId, with or without URL and
\* correlation id
JobEntries ==
    {<<mid, <<"7">>, url, cid>> :
        mid \in {<<"1">>, <<"m", "1">>},
        url \in {<<"http://cdn/a.jpg">>, <<>>},
        cid \in {<<"c", "1">>, <<>>}}

InitDead ==
    /\ dlq_auto_retry \in BOOLEAN
    /\ original \in JobEntries
    /\ failedService \in ServiceNames
    /\ dlqStream = {}
    /\ dlqHandled = FALSE
    /\ retryStream = {}
    /\ RestExceptDead
    /\ BaseAtRest

NextDead ==
    \/ WorkerToDlq
    \/ dlq_processor_handle_message

SpecDead == InitDead /\ [][NextDead]_vars

\* C14: every entry the DLQ processor re-appends to post-image-processing carries
\* the original entry's mediaId, postId, mediaUrl and correlationId unchanged, and
\* the markers dlqRetry=true and dlqOriginalService
C14_DlqRoundTrip ==
    \A e \in retryStream :
        /\ \A i \in 1..Len(JobFields) : <<(<<JobFields[i]>>), original[i]>> \in e
        /\ <<(<<"dlqRetry">>), <<"t", "r", "u", "e">> >> \in e
        /\ <<(<<"dlqOriginalService">>), <<failedService>> >> \in e

(***************************************************************************)
(* A worker process and a termination / interrupt signal: main() of each   *)
(* worker around RedisStreamConsumer.consume                                *)
(***************************************************************************)
ES_SYNC_BATCH_SIZE == 50

WorkerKinds == {"base", "analysis", "aggregator", "indexer", "dlq_processor"}

\* main() installs handlers for SIGTERM and SIGINT that set the shutdown event
\* (the analysis workers install none)
InstallsSignalHandlers(kind) == kind \in {"base", "aggregator", "indexer", "dlq_processor"}

\* the consumer was constructed with shutdown_event=...
ConsumerHasShutdownEvent(kind) == kind \in {"aggregator", "indexer"}

\* main()'s finally calls consumer.close()
FinallyClosesConsumer(kind) == kind \in {"base", "aggregator", "indexer"}

\* the count main() passes to consume
ConsumeCount(kind) == IF kind = "indexer" THEN ES_SYNC_BATCH_SIZE ELSE WORKER_READ_COUNT

\* consume before its loop: claim_pending_messages calls the handler on each stale
\* pending entry in turn
ShutStartupScan ==
    /\ spc = "startup"
    /\ IF scanLeft > 0
       THEN /\ spc' = "scan_handler"
            /\ startedAfter' = (startedAfter \/ signalled # "none")
       ELSE /\ spc' = "top"
            /\ UNCHANGED startedAfter
    /\ UNCHANGED <<workerKind, signalled, shutdown_flag, scanLeft, replyLeft, aborted>>
    /\ UNCHANGED <<notShut, baseVars>>

\* claim_pending_messages: the handler ends on the claimed entry
ShutScanHandlerEnd ==
    /\ spc = "scan_handler"
    /\ scanLeft' = scanLeft - 1
    /\ spc' = "startup"
    /\ UNCHANGED <<workerKind, signalled, shutdown_flag, replyLeft, startedAfter, aborted>>
    /\ UNCHANGED <<notShut, baseVars>>

\* consume, top of "while True": the shutdown test, then on to xreadgroup
ShutLoopTop ==
    /\ spc = "top"
    /\ spc' = IF ConsumerHasShutdownEvent(workerKind) /\ shutdown_flag
              THEN "exited" ELSE "read"
    /\ UNCHANGED <<workerKind, signalled, shutdown_flag, scanLeft, replyLeft, startedAfter,
                   aborted>>
    /\ UNCHANGED <<notShut, baseVars>>

\* xreadgroup returns nothing after block_ms: continue
ShutReadEmpty ==
    /\ spc = "read"
    /\ spc' = "top"
    /\ UNCHANGED <<workerKind, signalled, shutdown_flag, scanLeft, replyLeft, startedAfter,
                   aborted>>
    /\ UNCHANGED <<notShut, baseVars>>

\* xreadgroup returns n entries, the handler is called on the first
ShutReadDeliver ==
    /\ spc = "read"
    /\ \E n \in 1..Min(ConsumeCount(workerKind), MaxEntries) : replyLeft' = n - 1
    /\ spc' = "handler"
    /\ startedAfter' = (startedAfter \/ signalled # "none")
    /\ UNCHANGED <<workerKind, signalled, shutdown_flag, scanLeft, aborted>>
    /\ UNCHANGED <<notShut, baseVars>>

\* the handler ends (ack or not): on to the next entry of the reply, or back to
\* the top of the loop
ShutHandlerEnd ==
    /\ spc = "handler"
    /\ IF replyLeft > 0
       THEN /\ replyLeft' = replyLeft - 1
            /\ startedAfter' = (startedAfter \/ signalled # "none")
            /\ UNCHANGED spc
       ELSE /\ spc' = "top"
            /\ UNCHANGED <<replyLeft, startedAfter>>
    /\ UNCHANGED <<workerKind, signalled, shutdown_flag, scanLeft, aborted>>
    /\ UNCHANGED <<notShut, baseVars>>

\* SIGTERM or SIGINT reaches the process while consume runs: the installed handler
\* sets the event; with no handler installed SIGTERM ends the process at once and
\* SIGINT raises KeyboardInterrupt in the main thread, which leaves consume
Signal ==
    /\ signalled = "none"
    /\ spc \in {"startup", "scan_handler", "top", "read", "handler"}
    /\ \E sig \in {"SIGTERM", "SIGINT"} :
          /\ signalled' = sig
          /\ IF InstallsSignalHandlers(workerKind)
             THEN /\ shutdown_flag' = TRUE
                  /\ UNCHANGED <<spc, aborted>>
             ELSE /\ spc' = IF sig = "SIGTERM" THEN "killed" ELSE "exited"
                  /\ aborted' = (spc \in {"handler", "scan_handler"})
                  /\ UNCHANGED shutdown_flag
    /\ UNCHANGED <<workerKind, scanLeft, replyLeft, startedAfter>>
    /\ UNCHANGED <<notShut, baseVars>>

\* main()'s finally after consume returned or raised
ShutFinally ==
    /\ spc = "exited"
    /\ spc' = IF FinallyClosesConsumer(workerKind) THEN "closed" ELSE "ended"
    /\ shutdown_flag' = (shutdown_flag \/ InstallsSignalHandlers(workerKind))
    /\ UNCHANGED <<workerKind, signalled, scanLeft, replyLeft, startedAfter, aborted>>
    /\ UNCHANGED <<notShut, baseVars>>

InitShut ==
    /\ workerKind \in WorkerKinds
    /\ signalled = "none"
    /\ shutdown_flag = FALSE
    /\ spc = "startup"
    /\ scanLeft \in 0..MaxEntries
    /\ replyLeft = 0
    /\ startedAfter = FALSE
    /\ aborted = FALSE
    /\ RestExceptShut
    /\ BaseAtRest

NextShut ==
    \/ ShutStartupScan
    \/ ShutScanHandlerEnd
    \/ ShutLoopTop
    \/ ShutReadEmpty
    \/ ShutReadDeliver
    \/ ShutHandlerEnd
    \/ Signal
    \/ ShutFinally

\* the main thread keeps running: the loop goes on, handlers end, main() finishes
FairSpecShut ==
    /\ InitShut
    /\ [][NextShut]_vars
    /\ WF_vars(ShutStartupScan)
    /\ WF_vars(ShutScanHandlerEnd)
    /\ WF_vars(ShutLoopTop)
    /\ WF_vars(ShutReadEmpty \/ ShutReadDeliver)
    /\ WF_vars(ShutHandlerEnd)
    /\ WF_vars(ShutFinally)

\* C16: after a termination or interrupt signal the worker sets its shutdown flag,
\* finishes the handler invocation in progress, starts no further one, leaves the
\* loop and closes its bus connections
C16_GracefulShutdown ==
    (signalled # "none")
        ~> (shutdown_flag /\ spc = "closed" /\ ~startedAfter /\ ~aborted)

(***************************************************************************)
(* Readiness: shared/utils/health_server.py as the workers' main() uses it *)
(***************************************************************************)
HTTP_OK == 200
HTTP_UNAVAILABLE == 503

\* the workers whose main() starts the shared health server
ReadyKinds == {"base", "aggregator", "indexer"}

\* _HealthHandler.do_GET for the path /ready
do_GET_ready(ready) == IF ready THEN HTTP_OK ELSE HTTP_UNAVAILABLE

\* main(): start_health_server(...)
start_health_server ==
    /\ rpc = "start"
    /\ serving' = TRUE
    /\ rpc' = "started"
    /\ UNCHANGED <<readyKind, _ready, rflag, answers>>
    /\ UNCHANGED <<notReady, baseVars>>

\* main(): mark_ready()
mark_ready ==
    /\ rpc = "started"
    /\ _ready' = TRUE
    /\ rpc' = "marked"
    /\ UNCHANGED <<readyKind, serving, rflag, answers>>
    /\ UNCHANGED <<notReady, baseVars>>

\* main(): consumer.consume(...) is entered
ConsumeBegins ==
    /\ rpc = "marked"
    /\ rpc' = "consuming"
    /\ UNCHANGED <<readyKind, serving, _ready, rflag, answers>>
    /\ UNCHANGED <<notReady, baseVars>>

\* SIGTERM / SIGINT: _shutdown_handler sets the event
ReadySignal ==
    /\ rpc \in {"start", "started", "marked", "consuming"}
    /\ ~rflag
    /\ rflag' = TRUE
    /\ UNCHANGED <<readyKind, rpc, serving, _ready, answers>>
    /\ UNCHANGED <<notReady, baseVars>>

\* consume returns (its loop saw the event) or raises; main() goes to its finally
ConsumeEnds ==
    /\ rpc = "consuming"
    /\ \E raised \in BOOLEAN :
          raised \/ (ConsumerHasShutdownEvent(readyKind) /\ rflag)
    /\ rpc' = "finally"
    /\ UNCHANGED <<readyKind, serving, _ready, rflag, answers>>
    /\ UNCHANGED <<notReady, baseVars>>

\* main()'s finally: the event is set, the connections are closed
ReadyFinally ==
    /\ rpc = "finally"
    /\ rflag' = TRUE
    /\ rpc' = "closed"
    /\ UNCHANGED <<readyKind, serving, _ready, answers>>
    /\ UNCHANGED <<notReady, baseVars>>

\* main() returns and the process ends, the daemon thread of the server with it
ProcessEnds ==
    /\ rpc = "closed"
    /\ rpc' = "ended"
    /\ serving' = FALSE
    /\ UNCHANGED <<readyKind, _ready, rflag, answers>>
    /\ UNCHANGED <<notReady, baseVars>>

\* a probe sends GET /ready and the server thread answers it
GetReady ==
    /\ serving
    /\ answers' = answers \cup {[status |-> do_GET_ready(_ready), at |-> rpc,
                                  flag |-> rflag]}
    /\ UNCHANGED <<readyKind, rpc, serving, _ready, rflag>>
    /\ UNCHANGED <<notReady, baseVars>>

InitReady ==
    /\ readyKind \in ReadyKinds
    /\ rpc = "start"
    /\ serving = FALSE
    /\ _ready = FALSE
    /\ rflag = FALSE
    /\ answers = {}
    /\ RestExceptReady
    /\ BaseAtRest

NextReady ==
    \/ start_health_server
    \/ mark_ready
    \/ ConsumeBegins
    \/ ReadySignal
    \/ ConsumeEnds
    \/ ReadyFinally
    \/ ProcessEnds
    \/ GetReady

SpecReady == InitReady /\ [][NextReady]_vars

\* C17: GET /ready answers 200 exactly while consume is running and the shutdown
\* flag is not set, and 503 before and after
C17_ReadinessLifecycle ==
    \A a \in answers :
        a.status = IF a.at = "consuming" /\ ~a.flag THEN HTTP_OK ELSE HTTP_UNAVAILABLE

\* ---------------------------------------------------------------------------
\* The indexer (services/es_sync/worker.py): main() buffers one action per
\* sync event and writes the buffer to the search index in bulk.  Time is
\* counted in seconds.
\* ---------------------------------------------------------------------------

ES_SYNC_BATCH_TIMEOUT == 2

\* what message_handler does with one event: it returns early on a message
\* it cannot use, a database read may raise, otherwise it appends one action
HandlerOutcomes == {"invalid", "raises", "queued"}

\* the tests at the end of message_handler: the size of the buffer first,
\* otherwise the time since batch_start
flush_due(actions, since) ==
    \/ actions >= ES_SYNC_BATCH_SIZE
    \/ (since >= ES_SYNC_BATCH_TIMEOUT /\ actions > 0)

\* the actions the finally block of main() hands to sync_batch
finally_no_flush(actions) == 0

finally_submits(actions) == IF actions > 0 THEN actions ELSE 0

\* one second passes while main() is in consume(); an empty reply of the
\* blocking read sends the loop round again and tests nothing
IdxTick ==
    /\ ipc = "consume"
    /\ (sinceStart < ES_SYNC_BATCH_TIMEOUT
        \/ (batch_actions > 0 /\ age <= ES_SYNC_BATCH_TIMEOUT))
    /\ sinceStart' = IF sinceStart < ES_SYNC_BATCH_TIMEOUT
                       THEN sinceStart + 1 ELSE sinceStart
    /\ age' = IF batch_actions > 0 /\ age <= ES_SYNC_BATCH_TIMEOUT
                THEN age + 1 ELSE age
    /\ UNCHANGED <<batch_actions, iflag, ipc, finalFlush>>
    /\ UNCHANGED <<notIdx, baseVars>>

\* message_handler runs for one sync event
message_handler ==
    /\ ipc = "consume"
    /\ \E outcome \in HandlerOutcomes :
        IF outcome = "queued"
          THEN IF flush_due(batch_actions + 1, sinceStart)
                 THEN \* _flush_batch: one bulk write, the buffer is
                      \* emptied and batch_start is set to now
                      /\ batch_actions' = 0
                      /\ sinceStart' = 0
                      /\ age' = 0
                 ELSE /\ batch_actions' = batch_actions + 1
                      /\ age' = IF batch_actions = 0 THEN 0 ELSE age
                      /\ UNCHANGED sinceStart
          ELSE UNCHANGED <<batch_actions, sinceStart, age>>
    /\ UNCHANGED <<iflag, ipc, finalFlush>>
    /\ UNCHANGED <<notIdx, baseVars>>

\* SIGTERM or SIGINT: _signal_handler sets the shutdown event
IdxSignal ==
    /\ ipc = "consume"
    /\ ~iflag
    /\ iflag' = TRUE
    /\ UNCHANGED <<batch_actions, sinceStart, age, ipc, finalFlush>>
    /\ UNCHANGED <<notIdx, baseVars>>

\* the consume loop sees the event at the top of its loop and returns;
\* main() enters its finally block
IdxConsumeReturns ==
    /\ ipc = "consume"
    /\ iflag
    /\ ipc' = "finally"
    /\ UNCHANGED <<batch_actions, sinceStart, age, iflag, finalFlush>>
    /\ UNCHANGED <<notIdx, baseVars>>

\* finally: the remaining batch goes to sync_batch
IdxFinallyFlush ==
    /\ ipc = "finally"
    /\ finalFlush' = finally_submits(batch_actions)
    /\ batch_actions' = batch_actions - finalFlush'
    /\ ipc' = "flushed"
    /\ UNCHANGED <<sinceStart, age, iflag>>
    /\ UNCHANGED <<notIdx, baseVars>>

\* finally: consumer.close()
IdxCloseConsumer ==
    /\ ipc = "flushed"
    /\ ipc' = "consumer_closed"
    /\ UNCHANGED <<batch_actions, sinceStart, age, iflag, finalFlush>>
    /\ UNCHANGED <<notIdx, baseVars>>

\* finally: sync_handler.close() closes the database pool and the client
IdxCloseHandler ==
    /\ ipc = "consumer_closed"
    /\ ipc' = "closed"
    /\ UNCHANGED <<batch_actions, sinceStart, age, iflag, finalFlush>>
    /\ UNCHANGED <<notIdx, baseVars>>

InitIdx ==
    /\ IdxAtRest
    /\ RestExceptIdx
    /\ BaseAtRest

NextIdx ==
    \/ IdxTick
    \/ message_handler
    \/ IdxSignal
    \/ IdxConsumeReturns
    \/ IdxFinallyFlush
    \/ IdxCloseConsumer
    \/ IdxCloseHandler

SpecIdx == InitIdx /\ [][NextIdx]_vars

\* C18: while the indexer consumes, a buffered action is written out as soon
\* as the buffer holds ES_SYNC_BATCH_SIZE actions or ES_SYNC_BATCH_TIMEOUT has
\* passed since the first action of the batch was queued: the buffer never
\* holds a full batch, and no action is in it longer than the batch timeout,
\* whether or not a later sync event arrives.
C18_FlushOnSizeOrTimeout ==
    (ipc = "consume" /\ batch_actions > 0) =>
        /\ batch_actions < ES_SYNC_BATCH_SIZE
        /\ age <= ES_SYNC_BATCH_TIMEOUT

failure_threshold == 5
half_open_max_calls == 1

\* threads that may be inside func at the same time
MaxThreads == 2
\* outcomes recorded in one behaviour
MaxRecorded == 8

\* the threshold test of _on_failure
opens_above(count) == count > failure_threshold

opens(count) == count >= failure_threshold

\* the state property: an OPEN breaker whose last failure is at least
\* recovery_timeout old becomes HALF_OPEN when its state is read
state_always_half_open(st, last) ==
    IF st = "open" THEN "half_open" ELSE st

state_never_half_open(st, last) == st

state_read(st, last) ==
    IF st = "open" /\ last = "old" THEN "half_open" ELSE st

\* _failure_count after reset()
reset_keeps_count(count) == count

reset_failure_count(count) == 0

\* the failures at the end of a history, back to the last success or reset
RECURSIVE TrailingFailures(_)
TrailingFailures(h) ==
    IF h = <<>> \/ h[Len(h)] # "failure" THEN 0
    ELSE 1 + TrailingFailures(SubSeq(h, 1, Len(h) - 1))

\* history: the latest call() came to this outcome
Called(outcome) == [n |-> 1 - lastCall.n, outcome |-> outcome]

\* some caller reads breaker.state
CbState ==
    /\ _state # state_read(_state, _last_failure_time)
    /\ _state' = state_read(_state, _last_failure_time)
    /\ _half_open_calls' = 0
    /\ UNCHANGED <<_failure_count, _last_failure_time, inFlight, recorded,
                   _success_count, probing, lastCall>>
    /\ UNCHANGED <<notCb, baseVars>>

\* call(), its first part: current_state = self.state; CircuitOpenError if
\* that is OPEN, func starts if it is CLOSED, and if it is HALF_OPEN the
\* caller goes on to take the lock a second time
CbCall ==
    /\ inFlight + probing < MaxThreads
    /\ LET current_state == state_read(_state, _last_failure_time)
       IN  /\ _state' = current_state
           /\ _half_open_calls' =
                  IF current_state # _state THEN 0 ELSE _half_open_calls
           /\ IF current_state = "open"
                THEN /\ lastCall' = Called("CircuitOpenError")
                     /\ UNCHANGED <<inFlight, probing>>
                ELSE IF current_state = "half_open"
                  THEN /\ probing' = probing + 1
                       /\ lastCall' = Called("half_open")
                       /\ UNCHANGED inFlight
                  ELSE /\ inFlight' = inFlight + 1
                       /\ lastCall' = Called("func")
                       /\ UNCHANGED probing
    /\ UNCHANGED <<_failure_count, _last_failure_time, recorded, _success_count>>
    /\ UNCHANGED <<notCb, baseVars>>

\* call(), its second part for a caller that read HALF_OPEN: under the lock
\* again, CircuitOpenError if the probe calls are used up, else func starts
CbCallProbe ==
    /\ probing > 0
    /\ probing' = probing - 1
    /\ IF _half_open_calls >= half_open_max_calls
         THEN /\ lastCall' = Called("CircuitOpenError")
              /\ UNCHANGED <<_half_open_calls, inFlight>>
         ELSE /\ _half_open_calls' = _half_open_calls + 1
              /\ inFlight' = inFlight + 1
              /\ lastCall' = Called("func")
    /\ UNCHANGED <<_state, _failure_count, _last_failure_time, recorded,
                   _success_count>>
    /\ UNCHANGED <<notCb, baseVars>>

\* func returned: _on_success
CbOnSuccess ==
    /\ inFlight > 0
    /\ Len(recorded) < MaxRecorded
    /\ inFlight' = inFlight - 1
    /\ recorded' = Append(recorded, "success")
    /\ _state' = IF _state = "half_open" THEN "closed" ELSE _state
    /\ _failure_count' = 0
    /\ _success_count' = IF _state = "half_open" THEN 1 ELSE _success_count + 1
    /\ UNCHANGED <<_half_open_calls, _last_failure_time, probing, lastCall>>
    /\ UNCHANGED <<notCb, baseVars>>

\* func raised: _on_failure
CbOnFailure ==
    /\ inFlight > 0
    /\ Len(recorded) < MaxRecorded
    /\ inFlight' = inFlight - 1
    /\ recorded' = Append(recorded, "failure")
    /\ _failure_count' = _failure_count + 1
    /\ _last_failure_time' = "recent"
    /\ _state' = IF _state = "half_open" THEN "open"
                 ELSE IF opens(_failure_count') THEN "open"
                 ELSE _state
    /\ UNCHANGED <<_half_open_calls, _success_count, probing, lastCall>>
    /\ UNCHANGED <<notCb, baseVars>>

\* recovery_timeout passes after the last failure
CbRecoveryTimeout ==
    /\ _last_failure_time = "recent"
    /\ _last_failure_time' = "old"
    /\ UNCHANGED <<_state, _failure_count, _half_open_calls, inFlight, recorded,
                   _success_count, probing, lastCall>>
    /\ UNCHANGED <<notCb, baseVars>>

\* reset()
CbReset ==
    /\ Len(recorded) < MaxRecorded
    /\ recorded' = Append(recorded, "reset")
    /\ _state' = "closed"
    /\ _failure_count' = reset_failure_count(_failure_count)
    /\ _success_count' = 0
    /\ _half_open_calls' = 0
    /\ _last_failure_time' = "none"
    /\ UNCHANGED <<inFlight, probing, lastCall>>
    /\ UNCHANGED <<notCb, baseVars>>

InitCb ==
    /\ CbAtRest
    /\ RestExceptCb
    /\ BaseAtRest

NextCb ==
    \/ CbState
    \/ CbCall
    \/ CbCallProbe
    \/ CbOnSuccess
    \/ CbOnFailure
    \/ CbRecoveryTimeout
    \/ CbReset

SpecCb == InitCb /\ [][NextCb]_vars

\* C20: a CLOSED breaker becomes OPEN in exactly those steps that record a
\* failure which is the failure_threshold-th in a row, with no success (and
\* no reset) recorded in between; so a success in CLOSED starts the count
\* again and fewer than failure_threshold failures in a row never open it.
C20_OpensAtThreshold ==
    [][_state = "closed" =>
        ((_state' = "open") <=>
            (recorded' # recorded
             /\ TrailingFailures(recorded') = failure_threshold))]_vars

\* C20, its case: two failures too few to open, a success, and then exactly
\* failure_threshold failures in a row have opened the breaker
C20_Witness ==
    /\ _state = "open"
    /\ Len(recorded) = failure_threshold + 3
    /\ recorded[1] = "failure"
    /\ recorded[2] = "failure"
    /\ recorded[3] = "success"
    /\ TrailingFailures(recorded) = failure_threshold

\* the breaker's own fields
CbFields == <<_state, _failure_count, _success_count, _half_open_calls, _last_failure_time>>

\* a step in which a call() begins: it reads the state and is rejected, let
\* through, or sent on to the probe test
CallBegins == lastCall' # lastCall /\ probing' >= probing

\* C21: a call() made while the breaker is OPEN and recovery_timeout has not
\* passed since the last failure raises CircuitOpenError, does not start the
\* wrapped function, and leaves the breaker's state and counters as they were.
C21_OpenFastFail ==
    [][(CallBegins /\ _state = "open" /\ _last_failure_time = "recent") =>
        /\ lastCall'.outcome = "CircuitOpenError"
        /\ inFlight' = inFlight
        /\ probing' = probing
        /\ CbFields' = CbFields]_vars

\* C21, its case: the latest call was rejected by a breaker that is OPEN and
\* whose last failure is not yet recovery_timeout old
C21_Witness ==
    /\ _state = "open"
    /\ _last_failure_time = "recent"
    /\ lastCall.outcome = "CircuitOpenError"
    /\ TrailingFailures(recorded) = failure_threshold

\* C22: an OPEN breaker whose last failure is recovery_timeout old is seen as
\* HALF_OPEN by whoever reads its state; a success recorded in HALF_OPEN makes
\* it CLOSED with a failure count of zero; a failure recorded in HALF_OPEN
\* makes it OPEN again with the last-failure time set to now.
C22_Recovery ==
    [][/\ (_state = "open" /\ _last_failure_time = "old" /\ CallBegins)
            => (_state' = "half_open" /\ lastCall'.outcome = "half_open")
       /\ (_state = "half_open" /\ recorded' = Append(recorded, "success"))
            => (_state' = "closed" /\ _failure_count' = 0 /\ inFlight' = inFlight - 1)
       /\ (_state = "half_open" /\ recorded' = Append(recorded, "failure"))
            => (_state' = "open" /\ _last_failure_time' = "recent")]_vars

\* C22, its case: the breaker opened, the timeout passed, the probe call
\* succeeded and the breaker is CLOSED again
C22_Witness ==
    /\ _state = "closed"
    /\ Len(recorded) = failure_threshold + 1
    /\ recorded[Len(recorded)] = "success"
    /\ TrailingFailures(SubSeq(recorded, 1, failure_threshold)) = failure_threshold
    /\ _failure_count = 0

\* C22, its other case: the probe call failed and the breaker is OPEN again,
\* its recovery timeout running anew
C22_WitnessFailed ==
    /\ _state = "open"
    /\ _last_failure_time = "recent"
    /\ Len(recorded) = failure_threshold + 1
    /\ TrailingFailures(recorded) = failure_threshold + 1
    /\ inFlight = 0

\* the position of the last reset() in a history, 0 if there is none
LastReset(h) ==
    IF \E i \in 1..Len(h) : h[i] = "reset"
      THEN CHOOSE i \in 1..Len(h) :
               h[i] = "reset" /\ \A j \in (i + 1)..Len(h) : h[j] # "reset"
      ELSE 0

\* C23: reset() leaves the breaker as a new one is (CLOSED, the three counters
\* zero, no last-failure time); a call made next is let through to the
\* function; and the breaker does not open again before failure_threshold
\* failures in a row have been recorded after the reset.
C23_Reset ==
    [][/\ recorded' = Append(recorded, "reset") =>
            CbFields' = <<"closed", 0, 0, 0, "none">>
       /\ (recorded # <<>> /\ recorded[Len(recorded)] = "reset" /\ CallBegins)
            => (lastCall'.outcome = "func" /\ inFlight' = inFlight + 1)
       /\ (_state = "closed" /\ _state' = "open" /\ LastReset(recorded') > 0)
            => /\ Len(recorded') - LastReset(recorded') >= failure_threshold
               /\ TrailingFailures(recorded') = failure_threshold]_vars

\* C23, its case: an OPEN breaker was reset and the next call was let through
C23_Witness ==
    /\ Len(recorded) = failure_threshold + 1
    /\ recorded[Len(recorded)] = "reset"
    /\ TrailingFailures(SubSeq(recorded, 1, failure_threshold)) = failure_threshold
    /\ CbFields = <<"closed", 0, 0, 0, "none">>
    /\ lastCall.outcome = "func"
    /\ inFlight = 1

\* C23, its other case: after a reset the breaker has opened again, on the
\* failure_threshold-th failure in a row
C23_WitnessReopened ==
    /\ _state = "open"
    /\ LastReset(recorded) = 2
    /\ recorded[1] = "failure"
    /\ Len(recorded) = failure_threshold + 2
    /\ TrailingFailures(recorded) = failure_threshold

\* ---------------------------------------------------------------------------
\* validate_url (shared/utils/url_validator.py) as a function of its argument,
\* of the two module settings and of what the resolver answers.  A URL text is
\* the scheme and the network location urlparse splits it into.
\* ---------------------------------------------------------------------------

UrlSchemes == {"http", "https", "HTTPS", "ftp"}

\* network locations: none, three names, an address, an IPv6 bracket that is
\* not closed, and a name with a label of more than 63 characters
UrlNetlocs == {"", "res.cloudinary.com", "RES.CLOUDINARY.COM", "evil.com", "10.0.0.5",
               "[::1", "label-of-64-characters.com"}

UrlInputs ==
    {[kind |-> k, scheme |-> "", netloc |-> ""] : k \in {"None", "empty", "blank"}}
    \cup {[kind |-> "url", scheme |-> sch, netloc |-> n] : sch \in UrlSchemes, n \in UrlNetlocs}

\* what getaddrinfo and ipaddress find for a hostname
AddressClasses == {"public", "private", "loopback", "link_local", "reserved", "gaierror"}

AllowLists == {{}, {"res.cloudinary.com"}, {"res.cloudinary.com", "evil.com"}}

\* str.lower() on the texts above
lower(text) ==
    IF text = "HTTPS" THEN "https"
    ELSE IF text = "RES.CLOUDINARY.COM" THEN "res.cloudinary.com"
    ELSE text

\* _is_private_ip: an address of one of the four classes, or no answer
_is_private_ip(class) == class # "public"

Returned(url) == [how |-> "returned", error |-> "", url |-> url]
Raised(error) == [how |-> "raised", error |-> error, url |-> UrlNone]

validate_url_of(url, enabled, allowed, class) ==
    IF url.kind # "url" THEN Raised("URLValidationError")
    \* urlparse: urlsplit raises on a bracket that is not closed
    ELSE IF url.netloc = "[::1" THEN Raised("ValueError")
    ELSE IF lower(url.scheme) \notin {"http", "https"} THEN Raised("URLValidationError")
    ELSE IF url.netloc = "" THEN Raised("URLValidationError")
    \* getaddrinfo encodes the name with the idna codec before it resolves it
    ELSE IF enabled /\ url.netloc = "label-of-64-characters.com" THEN Raised("UnicodeError")
    ELSE IF enabled /\ _is_private_ip(class) THEN Raised("URLValidationError")
    ELSE IF allowed # {} /\ lower(url.netloc) \notin allowed THEN Raised("URLValidationError")
    ELSE Returned(url)

ValidateUrl ==
    /\ urlOut.how = "pending"
    /\ urlOut' = validate_url_of(urlIn, _SSRF_CHECK_ENABLED, _ALLOWED_DOMAINS, resolved)
    /\ UNCHANGED <<urlIn, _SSRF_CHECK_ENABLED, _ALLOWED_DOMAINS, resolved>>
    /\ UNCHANGED <<notUrl, baseVars>>

InitUrl ==
    /\ urlIn \in UrlInputs
    /\ _SSRF_CHECK_ENABLED \in BOOLEAN
    /\ _ALLOWED_DOMAINS \in AllowLists
    /\ resolved \in AddressClasses
    /\ urlOut = [how |-> "pending", error |-> "", url |-> UrlNone]
    /\ RestExceptUrl
    /\ BaseAtRest

NextUrl == ValidateUrl

SpecUrl == InitUrl /\ [][NextUrl]_vars

\* the inputs the claim lets through: an http or https URL with a hostname
\* that resolves to a public address and, if there is an allow-list, is on it
UrlAcceptable ==
    /\ urlIn.kind = "url"
    /\ lower(urlIn.scheme) \in {"http", "https"}
    /\ urlIn.netloc \notin {"", "[::1"}
    /\ resolved = "public"
    /\ urlIn.netloc # "label-of-64-characters.com"
    /\ (_ALLOWED_DOMAINS # {} => lower(urlIn.netloc) \in _ALLOWED_DOMAINS)

\* C24: validate_url returns its argument unchanged only for an http or https
\* URL with a hostname that does not resolve to a private, loopback,
\* link-local or reserved address and that is on the allow-list if there is
\* one; for every other argument it raises URLValidationError.
C24_ValidateUrl ==
    urlOut.how # "pending" =>
        urlOut = IF UrlAcceptable THEN Returned(urlIn) ELSE Raised("URLValidationError")

\* ---------------------------------------------------------------------------
\* The provider registry (shared/providers/registry.py): register and
\* get_provider, called one after the other.
\* ---------------------------------------------------------------------------

\* get_provider calls in one behaviour
MaxCalls == 3

\* task and platform texts as callers and the environment spell them
TaskTexts == {"moderation", "Moderation", "face"}
PlatformTexts == {"HuggingFace", "local"}

\* str.lower() on these texts
lower_name(text) ==
    IF text = "Moderation" THEN "moderation"
    ELSE IF text = "HuggingFace" THEN "huggingface"
    ELSE text

\* f"{task.upper()}_PLATFORM"
env_key(task) ==
    IF lower_name(task) = "moderation" THEN "MODERATION_PLATFORM" ELSE "FACE_PLATFORM"

\* os.getenv(key, default)
getenv(env, key, default) == IF env[key] = "unset" THEN default ELSE env[key]

\* the platform get_provider settles on
platform_ai_first(platform, task, env) ==
    lower_name(IF platform = "None"
                 THEN getenv(env, "AI_PLATFORM", getenv(env, env_key(task), "huggingface"))
                 ELSE platform)

platform_of(platform, task, env) ==
    lower_name(IF platform = "None"
                 THEN getenv(env, env_key(task), getenv(env, "AI_PLATFORM", "huggingface"))
                 ELSE platform)

\* the cached instance of a pair, 0 if there is none
cached(instances, key) ==
    IF \E i \in instances : i.key = key
      THEN (CHOOSE i \in instances : i.key = key).instance
      ELSE 0

\* where the claim's resolution order finds the platform of a call: the
\* argument, then {TASK}_PLATFORM, then AI_PLATFORM, then the default
ClaimedSource(task, platform, env) ==
    IF platform # "None" THEN "argument"
    ELSE IF env[env_key(task)] # "unset" THEN env_key(task)
    ELSE IF env["AI_PLATFORM"] # "unset" THEN "AI_PLATFORM"
    ELSE "default"

\* the pair a call stands for by that order
ClaimedPair(task, platform, env) ==
    LET source == ClaimedSource(task, platform, env)
    IN  <<lower_name(task),
          lower_name(IF source = "argument" THEN platform
                     ELSE IF source = "default" THEN "huggingface"
                     ELSE env[source])>>

\* register(task, platform, provider_cls)
Register ==
    /\ \E task \in TaskTexts, platform \in PlatformTexts :
          _REGISTRY' = _REGISTRY \cup {<<lower_name(task), lower_name(platform)>>}
    /\ _REGISTRY' # _REGISTRY
    /\ UNCHANGED <<_INSTANCES, environ, calls>>
    /\ UNCHANGED <<notReg, baseVars>>

\* the environment changes between two calls
SetEnv ==
    /\ \E k \in EnvKeys, v \in PlatformTexts \cup {"unset"} :
          /\ environ[k] # v
          /\ environ' = [environ EXCEPT ![k] = v]
    /\ UNCHANGED <<_REGISTRY, _INSTANCES, calls>>
    /\ UNCHANGED <<notReg, baseVars>>

\* get_provider(task, platform); the history keeps, with what the call did,
\* the pair the claim's order gives for it and whether that pair had a provider
get_provider ==
    /\ Len(calls) < MaxCalls
    /\ \E task \in TaskTexts, platform \in PlatformTexts \cup {"None"} :
        LET key == <<lower_name(task), platform_of(platform, task, environ)>>
            call == [key |-> key,
                     claimed |-> ClaimedPair(task, platform, environ),
                     source |-> ClaimedSource(task, platform, environ),
                     registered |-> ClaimedPair(task, platform, environ) \in _REGISTRY]
        IN  IF cached(_INSTANCES, key) # 0
              THEN /\ calls' = Append(calls, [call |-> call, raised |-> "",
                                              instance |-> cached(_INSTANCES, key),
                                              cache_changed |-> FALSE])
                   /\ UNCHANGED _INSTANCES
              ELSE IF key \notin _REGISTRY
                THEN /\ calls' = Append(calls, [call |-> call, raised |-> "ValueError",
                                                instance |-> 0, cache_changed |-> FALSE])
                     /\ UNCHANGED _INSTANCES
                ELSE LET instance == Cardinality(_INSTANCES) + 1
                     IN  /\ _INSTANCES' = _INSTANCES \cup {[key |-> key, instance |-> instance]}
                         /\ calls' = Append(calls, [call |-> call, raised |-> "",
                                                    instance |-> instance,
                                                    cache_changed |-> TRUE])
    /\ UNCHANGED <<_REGISTRY, environ>>
    /\ UNCHANGED <<notReg, baseVars>>

InitReg ==
    /\ RegAtRest
    /\ RestExceptReg
    /\ BaseAtRest

NextReg == Register \/ SetEnv \/ get_provider

SpecReg == InitReg /\ [][NextReg]_vars

\* C25: of the get_provider calls made so far, each looked up the pair the
\* resolution order gives; two calls for the same pair that returned, returned
\* the same instance, and calls for different pairs different instances; a
\* call for a pair without a registered provider raised ValueError and left
\* the cache as it was, and every other call returned an instance.
C25_OneInstancePerPair ==
    \A i \in 1..Len(calls) :
        /\ calls[i].call.key = calls[i].call.claimed
        /\ ~calls[i].call.registered
              => (calls[i].raised = "ValueError" /\ ~calls[i].cache_changed)
        /\ calls[i].call.registered
              => (calls[i].raised = "" /\ calls[i].instance # 0)
        /\ \A j \in 1..Len(calls) :
             (calls[i].raised = "" /\ calls[j].raised = "")
                => ((calls[i].call.claimed = calls[j].call.claimed)
                      <=> (calls[i].instance = calls[j].instance))

\* C25, its case: a call that named no platform was resolved through
\* AI_PLATFORM, a later call named the same platform itself and got the same
\* instance, and a call for a pair without a provider raised
C25_Witness ==
    /\ Len(calls) = MaxCalls
    /\ calls[1].call.source = "AI_PLATFORM"
    /\ calls[1].raised = ""
    /\ calls[2].call.source = "argument"
    /\ calls[2].instance = calls[1].instance
    /\ calls[3].raised = "ValueError"

\* ---------------------------------------------------------------------------
\* The face worker (services/face_recognition/worker.py): handle_message
\* formats the faces of the provider's response and publishes them.  An
\* embedding is described by what kind of JSON value it is and, for a list,
\* by its length; a formatted list also by how many zeros were added.
\* ---------------------------------------------------------------------------

EXPECTED_EMBEDDING_DIM == 1024

\* faces in one response
MaxFaces == 2

EmbeddingLengths == {0, 512, EXPECTED_EMBEDDING_DIM - 1, EXPECTED_EMBEDDING_DIM,
                     EXPECTED_EMBEDDING_DIM + 1, 2 * EXPECTED_EMBEDDING_DIM}

\* "embedding" in a face of the response: absent, null, a text, or a list
ApiEmbeddings ==
    {[kind |-> k, len |-> 0, zeros |-> 0] : k \in {"absent", "null", "str"}}
    \cup {[kind |-> "list", len |-> n, zeros |-> 0] : n \in EmbeddingLengths}

\* face.get("embedding", [])
get_embedding(e) == IF e.kind = "absent" THEN [kind |-> "list", len |-> 0, zeros |-> 0] ELSE e

\* the embedding handle_message puts into the formatted face
format_embedding(e) ==
    LET embedding == get_embedding(e)
    IN  IF embedding.kind = "list"
          THEN IF embedding.len < EXPECTED_EMBEDDING_DIM
                 THEN [kind |-> "list", len |-> EXPECTED_EMBEDDING_DIM,
                       zeros |-> EXPECTED_EMBEDDING_DIM - embedding.len]
               ELSE IF embedding.len > EXPECTED_EMBEDDING_DIM
                 THEN [kind |-> "list", len |-> EXPECTED_EMBEDDING_DIM, zeros |-> 0]
               ELSE embedding
          ELSE embedding

\* handle_message: the formatted faces are published in one entry
FacePublish ==
    /\ ~facesPublished.done
    /\ facesPublished' =
           [done |-> TRUE,
            faces |-> [i \in 1..Len(faces_list) |-> format_embedding(faces_list[i])]]
    /\ UNCHANGED faces_list
    /\ UNCHANGED <<notFace, baseVars>>

InitFace ==
    /\ \E n \in 0..MaxFaces : faces_list \in [1..n -> ApiEmbeddings]
    /\ facesPublished = [done |-> FALSE, faces |-> <<>>]
    /\ RestExceptFace
    /\ BaseAtRest

NextFace == FacePublish

SpecFace == InitFace /\ [][NextFace]_vars

\* C26: every face of a published entry has an embedding that is a list of
\* exactly EXPECTED_EMBEDDING_DIM elements, whatever the provider answered.
C26_EmbeddingDim ==
    facesPublished.done =>
        \A i \in 1..Len(facesPublished.faces) :
            /\ facesPublished.faces[i].kind = "list"
            /\ facesPublished.faces[i].len = EXPECTED_EMBEDDING_DIM

\* ---------------------------------------------------------------------------
\* The field names of the entries each producer of the system appends
\* (result_message, dlq_message and retry_message in the workers, in
\* shared/utils/retry.py and in the DLQ processor).  publisher.publish turns
\* the values into text and adds no field.
\* ---------------------------------------------------------------------------

AnalysisServices == {"moderation", "tagging", "scene_recognition", "captioning"}

\* the field that carries the result of an analysis service
AnalysisField(service) ==
    IF service = "moderation" THEN {"isSafe", "moderationConfidence"}
    ELSE IF service = "tagging" THEN {"tags"}
    ELSE IF service = "scene_recognition" THEN {"scenes"}
    ELSE {"caption"}

\* result_message of the four analysis workers
analysis_result_fields(service) ==
    {"mediaId", "postId", "service", "timestamp"} \cup AnalysisField(service)

\* result_message of the face worker
face_result_fields == {"mediaId", "postId", "facesDetected", "faces", "timestamp"}

\* result_message of the aggregator
enriched_fields ==
    {"postId", "mediaCount", "allAiTags", "allAiScenes", "aggregatedTags",
     "aggregatedScenes", "totalFaces", "isSafe", "moderationConfidence",
     "inferredEventType", "combinedCaption", "hasMultipleImages", "timestamp",
     "correlationId", "version"}

\* dlq_message of publish_to_dlq
dlq_fields ==
    {"originalMessageId", "originalData", "service", "error", "errorType",
     "retryCount", "timestamp"}

\* retry_message of the DLQ processor: the keys of original_data (the one key
\* "raw" when originalData is not JSON, else the keys of the job) and three marks
retry_fields(original_keys) ==
    original_keys \cup {"dlqRetry", "dlqOriginalService", "dlqOriginalMessageId"}

Entry(stream_name, by, fields) == [stream |-> stream_name, by |-> by, fields |-> fields]

PublishAnalysisResult ==
    /\ \E service \in AnalysisServices :
        LET e == Entry("ml-insights-results", service, analysis_result_fields(service))
        IN  e \notin appended /\ appended' = appended \cup {e}
    /\ UNCHANGED <<notVer, baseVars>>

PublishFaceResult ==
    /\ LET e == Entry("face-detection-results", "face", face_result_fields)
       IN  e \notin appended /\ appended' = appended \cup {e}
    /\ UNCHANGED <<notVer, baseVars>>

PublishEnriched ==
    /\ LET e == Entry("post-insights-enriched", "aggregator", enriched_fields)
       IN  e \notin appended /\ appended' = appended \cup {e}
    /\ UNCHANGED <<notVer, baseVars>>

PublishDlq ==
    /\ \E service \in AnalysisServices \cup {"face"} :
        LET e == Entry("ai-processing-dlq", service, dlq_fields)
        IN  e \notin appended /\ appended' = appended \cup {e}
    /\ UNCHANGED <<notVer, baseVars>>

PublishDlqRetry ==
    /\ \E d \in appended : d.stream = "ai-processing-dlq"
    /\ \E original_keys \in {{"raw"}, {"mediaId", "postId", "mediaUrl", "correlationId"}} :
        LET e == Entry("post-image-processing", "dlq_processor", retry_fields(original_keys))
        IN  e \notin appended /\ appended' = appended \cup {e}
    /\ UNCHANGED <<notVer, baseVars>>

InitVer ==
    /\ appended = {}
    /\ RestExceptVer
    /\ BaseAtRest

NextVer ==
    \/ PublishAnalysisResult
    \/ PublishFaceResult
    \/ PublishEnriched
    \/ PublishDlq
    \/ PublishDlqRetry

SpecVer == InitVer /\ [][NextVer]_vars

\* C27: every entry a producer of the system has appended to a stream has a
\* field named version.
C27_VersionField ==
    \A e \in appended : "version" \in e.fields

\* ---------------------------------------------------------------------------
\* handle_message of the analysis workers on one job entry
\* (services/content_moderation/worker.py; the tagging, scene, captioning and
\* face workers read and test the fields in the same way), and the ack that
\* consume sends when the handler has returned.
\* ---------------------------------------------------------------------------

MediaIdTexts == {Absent, <<>>, <<"0">>, <<"7">>, <<"0", "7">>, <<"m", "1">>,
                 <<"n", "u", "l", "l">>}
PostIdTexts == {Absent, <<"3">>, <<"p", "1">>}
MediaUrlTexts == {Absent, <<>>, <<"h", "t", "t", "p", ":", "/", "/", "x">>}

TypeError == [t |-> "error", v |-> 1]

\* decoded_data.get(field, default)
dict_get(entry, field, default) ==
    IF entry[field] = Absent THEN default ELSE decode_value(entry[field])

\* int(value)
py_int(value) ==
    IF value.t = "int" THEN value
    ELSE IF value.t = "bool" THEN PyInt(IF value.v THEN 1 ELSE 0)
    ELSE IF value.t = "str"
      THEN IF value.v # <<>> /\ \A i \in 1..Len(value.v) : IsDigit(value.v[i])
             THEN PyInt(TextToInt(value.v))
             ELSE ValueError
    ELSE TypeError

\* bool(value), as "not value" uses it
truthy(value) ==
    IF value.t = "int" THEN value.v # 0
    ELSE IF value.t = "bool" THEN value.v
    ELSE IF value.t = "none" THEN FALSE
    ELSE IF value.t = "dict" THEN TRUE
    ELSE value.v # <<>>

\* handle_message up to the retry loop: "raised" if decoding or int() raised,
\* "invalid" for the early return, "valid" if the retry loop is entered
handle_message_validate(entry) ==
    IF ~entry.utf8 THEN "raised"
    ELSE LET media_id == py_int(dict_get(entry, "mediaId", PyInt(0)))
             post_id == py_int(dict_get(entry, "postId", PyInt(0)))
             media_url == dict_get(entry, "mediaUrl", PyStr(<<>>))
         IN  IF media_id.t = "error" \/ post_id.t = "error" THEN "raised"
             ELSE IF ~truthy(media_id) \/ ~truthy(media_url) THEN "invalid"
             ELSE "valid"

\* consume hands the entry to handle_message and acks when it has returned
HandleJob ==
    /\ ~jobOutcome.done
    /\ \E provider \in {"answers", "fails"} :
        LET check == handle_message_validate(jobEntry)
        IN  jobOutcome' =
               [done |-> TRUE,
                invalid_logged |-> check = "invalid",
                attempted |-> check = "valid",
                result |-> check = "valid" /\ provider = "answers",
                dlq |-> check = "raised" \/ (check = "valid" /\ provider = "fails"),
                acked |-> TRUE]
    /\ UNCHANGED jobEntry
    /\ UNCHANGED <<notJob, baseVars>>

InitJob ==
    /\ jobEntry \in [mediaId : MediaIdTexts, postId : PostIdTexts,
                     mediaUrl : MediaUrlTexts, utf8 : BOOLEAN]
    /\ jobOutcome = NoOutcome
    /\ RestExceptJob
    /\ BaseAtRest

NextJob == HandleJob

SpecJob == InitJob /\ [][NextJob]_vars

\* a job is valid if its bytes are text and its mediaId and mediaUrl are
\* there and not empty
ValidJob ==
    /\ jobEntry.utf8
    /\ jobEntry.mediaId \notin {Absent, <<>>}
    /\ jobEntry.mediaUrl \notin {Absent, <<>>}

\* C28: a job that is malformed or has no mediaId or mediaUrl, or an empty
\* one, is logged as invalid and acked, and neither a result entry nor a DLQ
\* entry is published for it; a job with a non-empty mediaId and mediaUrl is
\* taken as valid, that is, handed to the processing loop.
C28_InvalidPayload ==
    jobOutcome.done =>
        IF ValidJob
          THEN jobOutcome.attempted /\ jobOutcome.acked
          ELSE /\ jobOutcome.acked
               /\ ~jobOutcome.attempted
               /\ ~jobOutcome.result
               /\ ~jobOutcome.dlq

(***************************************************************************)
(* The pending scan with a DLQ sink (consumer.py, claim_pending_messages)  *)
(***************************************************************************)
\* RedisStreamConsumer(..., dlq_publisher=<callable>): both consumers of the group
\* are built with a sink, nothing appended yet, no group yet
InitPoison ==
    /\ stream = <<>>
    /\ groupExists = FALSE
    /\ lastDelivered = 0
    /\ pending = [c \in Consumers |-> {}]
    /\ idle = [e \in Entries |-> 0]
    /\ delivered = [e \in Entries |-> 0]
    /\ pc = [c \in Consumers |-> "stopped"]
    /\ batch = [c \in Consumers |-> <<>>]
    /\ cur = [c \in Consumers |-> NoEntry]
    /\ result = [c \in Consumers |-> "none"]
    /\ scan = [c \in Consumers |-> <<>>]
    /\ checkDue = [c \in Consumers |-> FALSE]
    /\ startup = [c \in Consumers |-> FALSE]
    /\ dlq_publisher = TRUE
    /\ hasCrashed = FALSE
    /\ orphaned = {}
    /\ destroyed = FALSE
    /\ handled = {}
    /\ ackCalls = [e \in Entries |-> 0]
    /\ dlqSink = [e \in Entries |-> 0]
    /\ readCount = WORKER_READ_COUNT
    /\ PubAtRest
    /\ WorkerAtRest
    /\ AggAtRest
    /\ ExtAtRest

NextPoison ==
    \/ \E c \in Consumers : ConsumerStep(c)
    \/ \E c \in Consumers : ScanPoison(c)
    \/ AppendEntry
    \/ Tick

SpecPoison == InitPoison /\ [][NextPoison]_vars

\* the consumers that hold entry e after the step
OwnersAfter(e) == {c \in Consumers : e \in pending'[c]}

\* the step in which consumer b's scan passes on from the entry at the head of
\* its xpending_range reply, the entry being still pending and still idle for
\* PENDING_IDLE_MS at that moment
ScanPasses(b) ==
    /\ pc[b] = "scan"
    /\ scan[b] # <<>>
    /\ scan'[b] # scan[b]
    /\ XClaimable(Head(scan[b]).message_id)

\* C29: a pending scan inspects only entries idle for PENDING_IDLE_MS and touches
\* no other entry; an inspected entry (still pending and idle when the scan
\* reaches it) that was delivered max_claim_failures times, with a DLQ sink
\* configured, is emitted once to the sink and acked without a handler
\* invocation; every other such entry is claimed by the scanning consumer and
\* its handler is invoked on it
C29_PoisonRouting ==
    [][\A b \in Consumers :
          /\ (pc[b] \in {"stopped", "loop"} /\ pc'[b] = "scan")
                => \A i \in 1..Len(scan'[b]) :
                      scan'[b][i].time_since_delivered >= PENDING_IDLE_MS
          /\ ScanPasses(b)
                => LET h == Head(scan[b])
                       e == h.message_id
                   IN /\ \A x \in Entries \ {e} :
                            /\ OwnersAfter(x) = Owners(x)
                            /\ dlqSink'[x] = dlqSink[x]
                            /\ ackCalls'[x] = ackCalls[x]
                      /\ IF h.times_delivered >= DEFAULT_MAX_CLAIM_FAILURES /\ dlq_publisher
                         THEN /\ dlqSink[e] = 0
                              /\ dlqSink'[e] = 1
                              /\ ackCalls'[e] > ackCalls[e]
                              /\ e \notin GroupPending'
                              /\ pc'[b] = "scan"
                              /\ handled' = handled
                         ELSE /\ OwnersAfter(e) = {b}
                              /\ pc'[b] = "claim_handler"
                              /\ cur'[b] = e]_vars

(***************************************************************************)
(* The moderation worker's retries (content_moderation/worker.py,          *)
(* shared/utils/retry.py)                                                  *)
(***************************************************************************)
\* what the provider answers to one requests.post
ProviderAnswers == {200, 503}

\* the exceptions requests.get raises for the image download
DownloadErrors == {"ConnectionError", "HTTPError"}

\* delay = min(delay * BACKOFF_MULTIPLIER, MAX_RETRY_DELAY)
next_delay(delay) == Min(delay * BACKOFF_MULTIPLIER, MAX_RETRY_DELAY)

\* "if attempt < max_retries": the failed attempt is followed by another one
retries_left(n) == n < MAX_RETRIES

\* a warning record is logged, the thread sleeps for delay seconds
WarnAndSleep(delay) ==
    /\ warning_logs' = warning_logs + 1
    /\ sleep_log' = Append(sleep_log, delay)

\* handle_message on a valid job, up to the first iteration of its for loop
ModStart ==
    /\ mpc = "idle"
    /\ mpc' = "download"
    /\ loop_attempt' = 0
    /\ loop_delay' = INITIAL_RETRY_DELAY
    /\ UNCHANGED <<wrapper_attempt, wrapper_delay, last_exception, provider_calls, warning_logs,
                   sleep_log, every_call_503, download_failed, mod_dlq, mod_result>>
    /\ UNCHANGED <<notMod, baseVars>>

\* handle_message: requests.get(media_url); a failure is retried by "continue"
\* after a warning and a sleep, and re-raised on the last attempt; after a
\* download moderate_image enters the wrapper of call_hf_api
ModDownload ==
    /\ mpc = "download"
    /\ \/ /\ mpc' = "call"
          /\ wrapper_attempt' = 0
          /\ wrapper_delay' = INITIAL_RETRY_DELAY
          /\ UNCHANGED <<loop_attempt, loop_delay, last_exception, warning_logs, sleep_log,
                         download_failed>>
       \/ /\ download_failed' = TRUE
          /\ \E e \in DownloadErrors : last_exception' = e
          /\ IF retries_left(loop_attempt)
             THEN /\ WarnAndSleep(loop_delay)
                  /\ loop_delay' = next_delay(loop_delay)
                  /\ loop_attempt' = loop_attempt + 1
                  /\ mpc' = "download"
             ELSE /\ mpc' = "except"
                  /\ UNCHANGED <<loop_attempt, loop_delay, warning_logs, sleep_log>>
          /\ UNCHANGED <<wrapper_attempt, wrapper_delay>>
    /\ UNCHANGED <<provider_calls, every_call_503, mod_dlq, mod_result>>
    /\ UNCHANGED <<notMod, baseVars>>

\* retry_with_backoff's wrapper: one iteration of its for loop around call_hf_api:
\* requests.post, raise_for_status; an HTTPError is retried after a warning and a
\* sleep while attempts are left, and raised to handle_message after the last one;
\* on an answer handle_message publishes the result and returns
call_hf_api ==
    /\ mpc = "call"
    /\ provider_calls' = provider_calls + 1
    /\ \E status \in ProviderAnswers :
          IF status = 200
          THEN /\ every_call_503' = FALSE
               /\ mod_result' = TRUE
               /\ mpc' = "returned"
               /\ UNCHANGED <<wrapper_attempt, wrapper_delay, last_exception, warning_logs,
                              sleep_log>>
          ELSE /\ last_exception' = "HTTPError"
               /\ IF retries_left(wrapper_attempt)
                  THEN /\ WarnAndSleep(wrapper_delay)
                       /\ wrapper_delay' = next_delay(wrapper_delay)
                       /\ wrapper_attempt' = wrapper_attempt + 1
                       /\ mpc' = "call"
                  ELSE /\ mpc' = "except"
                       /\ UNCHANGED <<wrapper_attempt, wrapper_delay, warning_logs, sleep_log>>
               /\ UNCHANGED <<every_call_503, mod_result>>
    /\ UNCHANGED <<loop_attempt, loop_delay, download_failed, mod_dlq>>
    /\ UNCHANGED <<notMod, baseVars>>

\* handle_message: "except (requests.RequestException, ...)" of the for loop:
\* another attempt after a warning and a sleep, or "raise" on the last attempt
ModExcept ==
    /\ mpc = "except"
    /\ IF retries_left(loop_attempt)
       THEN /\ WarnAndSleep(loop_delay)
            /\ loop_delay' = next_delay(loop_delay)
            /\ loop_attempt' = loop_attempt + 1
            /\ mpc' = "download"
       ELSE /\ mpc' = "dlq"
            /\ UNCHANGED <<loop_attempt, loop_delay, warning_logs, sleep_log>>
    /\ UNCHANGED <<wrapper_attempt, wrapper_delay, last_exception, provider_calls, every_call_503,
                   download_failed, mod_dlq, mod_result>>
    /\ UNCHANGED <<notMod, baseVars>>

\* handle_message: "except Exception": publish_to_dlq(error=e,
\* service_name="content-moderation", retry_count=retry_count), whose own failure
\* is logged; the handler returns
ModDlq ==
    /\ mpc = "dlq"
    /\ \E publishOk \in BOOLEAN :
          mod_dlq' = IF publishOk
                     THEN Append(mod_dlq, [service |-> "content-moderation",
                                           errorType |-> last_exception,
                                           retryCount |-> loop_attempt])
                     ELSE mod_dlq
    /\ mpc' = "returned"
    /\ UNCHANGED <<loop_attempt, loop_delay, wrapper_attempt, wrapper_delay, last_exception,
                   provider_calls, warning_logs, sleep_log, every_call_503, download_failed,
                   mod_result>>
    /\ UNCHANGED <<notMod, baseVars>>

InitMod ==
    /\ ModAtRest
    /\ RestExceptMod
    /\ BaseAtRest

NextMod ==
    \/ ModStart
    \/ ModDownload
    \/ call_hf_api
    \/ ModExcept
    \/ ModDlq

SpecMod == InitMod /\ [][NextMod]_vars

\* the job whose every provider call was answered 503, with the image download
\* and the DLQ stream working, has been handled
Exhausted503 ==
    /\ mpc = "returned"
    /\ every_call_503
    /\ ~download_failed
    /\ ~mod_result
    /\ mod_dlq # <<>>

\* C30: a job whose every provider call is answered 503 gets exactly three
\* retries, with sleeps of 1, 2 and 4 seconds and one warning per retry, then one
\* DLQ entry with retryCount 3, service content-moderation and errorType
\* HTTPError, and the handler returns
C30_RetryExhaustion ==
    Exhausted503
        => /\ provider_calls = 1 + MAX_RETRIES
           /\ sleep_log = <<1, 2, 4>>
           /\ warning_logs = MAX_RETRIES
           /\ mod_dlq = <<[service |-> "content-moderation",
                           errorType |-> "HTTPError",
                           retryCount |-> MAX_RETRIES]>>

\* C31: while the breaker is HALF_OPEN no more than half_open_max_calls calls
\* have been admitted as probes, and an outcome moves the breaker from HALF_OPEN
\* to CLOSED or OPEN only when it is the outcome of an admitted probe
C31_SingleProbeDecides ==
    /\ [](_state = "half_open" => _half_open_calls <= half_open_max_calls)
    /\ [][( /\ _state = "half_open"
            /\ _state' \in {"closed", "open"}
            /\ recorded' # recorded
            /\ recorded'[Len(recorded')] \in {"success", "failure"} )
              => _half_open_calls >= 1]_vars

(***************************************************************************)
(* The post aggregator: one enriched record per trigger                    *)
(***************************************************************************)
AggRuns == {1, 2}

\* C32: the handler invocation of every trigger reaches the end of its polling
\* loop through COMPLETE or TIMEOUT and then publishes its enriched record, exactly
\* one per trigger, whatever is still missing in the media map
C32_OneRecordPerTrigger ==
    /\ \A r \in AggRuns :
          (run = r /\ apc = "check") ~> (run = r /\ apc = "emitted")
    /\ [][apc' = "emitted" /\ apc # "emitted"
             => /\ apc = "done"
                /\ endedBy \in {"COMPLETE", "TIMEOUT"}
                /\ emitted[run] = NoRecord
                /\ emitted'[run] # NoRecord]_vars

(***************************************************************************)
(* The post aggregator's media map and aggregate fields                    *)
(* (post_aggregator/worker.py: _merge_media_entry, aggregate_insights)     *)
(***************************************************************************)
Value(form, v) == [form |-> form, v |-> v]

\* a mediaInsights seed holds JSON values, a stream entry read with
\* decode_responses=True holds strings
FormOf(src) == IF src = "seed" THEN "json" ELSE "str"

Sources == {"seed", "stream"}

\* the moderation worker's result: isSafe and moderationConfidence
ModerationEntries ==
    {[mediaId |-> m, src |-> s, service |-> "moderation",
      isSafe |-> Value(FormOf(s), b), moderationConfidence |-> Value(FormOf(s), c),
      facesDetected |-> NoValue, tags |-> NoValue] :
        m \in MergeMediaIds, s \in Sources, b \in {0, 1}, c \in {0, 50}}

\* the tagging worker's result: a list of tags, or an empty string
TaggingEntries ==
    {[mediaId |-> m, src |-> s, service |-> "tagging",
      isSafe |-> NoValue, moderationConfidence |-> NoValue,
      facesDetected |-> NoValue, tags |-> Value(FormOf(s), n)] :
        m \in MergeMediaIds, s \in Sources, n \in {0, 1}}
    \cup {[mediaId |-> m, src |-> "stream", service |-> "tagging",
           isSafe |-> NoValue, moderationConfidence |-> NoValue,
           facesDetected |-> NoValue, tags |-> Value("empty", 0)] : m \in MergeMediaIds}

\* the face worker's result: facesDetected and no service field; media id 0 is an
\* entry without mediaId
FaceEntries ==
    {[mediaId |-> m, src |-> s, service |-> "",
      isSafe |-> NoValue, moderationConfidence |-> NoValue,
      facesDetected |-> Value(FormOf(s), n), tags |-> NoValue] :
        m \in MergeMediaIds, s \in Sources, n \in {0, 2}}
    \cup {[mediaId |-> 0, src |-> "stream", service |-> "",
           isSafe |-> NoValue, moderationConfidence |-> NoValue,
           facesDetected |-> Value("str", 2), tags |-> NoValue]}

FeedEntries == ModerationEntries \cup TaggingEntries \cup FaceEntries

\* variant: the first value recorded for a key is kept
first_value_wins(old, new) ==
    IF old.form # "absent" \/ new.form \in {"absent", "empty"} THEN old ELSE new

\* _merge_media_entry: "if key in entry and entry[key] not in (None, ''):
\* media_entry[key] = entry[key]"
merged_value(old, new) ==
    IF new.form \in {"absent", "empty"} THEN old ELSE new

\* _merge_media_entry: the service added to _services
merged_services(entry) ==
    IF entry.service # "" THEN {entry.service}
    ELSE IF entry.facesDetected.form # "absent" THEN {"face"}
    ELSE {}

\* _merge_media_entry(media_map, entry)
merge_entry(map, entry) ==
    IF entry.mediaId = 0 THEN map
    ELSE [map EXCEPT ![entry.mediaId] =
            [present |-> TRUE,
             _services |-> @._services \cup merged_services(entry),
             isSafe |-> merged_value(@.isSafe, entry.isSafe),
             moderationConfidence |->
                 merged_value(@.moderationConfidence, entry.moderationConfidence),
             facesDetected |-> merged_value(@.facesDetected, entry.facesDetected),
             tags |-> merged_value(@.tags, entry.tags)]]

\* "if insight.get(key):" a non-empty string passes, a JSON value passes unless it
\* is false, 0, 0.0 or []
value_truthy(val) ==
    \/ val.form = "str"
    \/ val.form = "json" /\ val.v # 0

RECURSIVE SumTo(_, _)
SumTo(f, n) == IF n = 0 THEN 0 ELSE f[n] + SumTo(f, n - 1)

MinOf(S) == CHOOSE x \in S : \A y \in S : x <= y

\* the numbers a loop of aggregate_insights adds up: the field's number for the
\* records whose field passes the "if insight.get(key)" test
Counted(map, key) ==
    [m \in MergeMediaIds |->
        IF map[m].present /\ value_truthy(map[m][key]) THEN map[m][key].v ELSE 0]

\* aggregate_insights(_finalize_media_map(media_map)): mediaCount, the length of
\* allAiTags, totalFaces, isSafe and moderationConfidence (hundredths)
aggregate_values(map) ==
    LET records == {m \in MergeMediaIds : map[m].present}
    IN [mediaCount |-> Cardinality(records),
        allAiTags |-> SumTo(Counted(map, "tags"), MaxMergeMedia),
        totalFaces |-> SumTo(Counted(map, "facesDetected"), MaxMergeMedia),
        isSafe |-> \A m \in records :
                      value_truthy(map[m].isSafe) => map[m].isSafe.v = 1,
        moderationConfidence |->
            MinOf({100} \cup {map[m].moderationConfidence.v :
                                m \in {r \in records :
                                          value_truthy(map[r].moderationConfidence)}})]

\* collect_media_insights: "for insight in initial_insights: _merge_media_entry"
\* before any stream entry is read
FeedSeed ==
    /\ Len(fed) < MaxFed
    /\ \A i \in 1..Len(fed) : fed[i].src = "seed"
    /\ \E entry \in {e \in FeedEntries : e.src = "seed"} :
          /\ mmap' = merge_entry(mmap, entry)
          /\ fed' = Append(fed, entry)
    /\ UNCHANGED <<notMerge, baseVars>>

\* collect_media_insights: "for entry in new_entries: _merge_media_entry"
FeedStream ==
    /\ Len(fed) < MaxFed
    /\ \E entry \in {e \in FeedEntries : e.src = "stream"} :
          /\ mmap' = merge_entry(mmap, entry)
          /\ fed' = Append(fed, entry)
    /\ UNCHANGED <<notMerge, baseVars>>

InitMerge ==
    /\ MergeAtRest
    /\ RestExceptMerge
    /\ BaseAtRest

NextMerge ==
    \/ FeedSeed
    \/ FeedStream

SpecMerge == InitMerge /\ [][NextMerge]_vars

\* the entries of s without those that occur again later in s
RECURSIVE KeepLast(_)
KeepLast(s) ==
    IF s = <<>> THEN <<>>
    ELSE IF Head(s) \in SeqToSet(Tail(s)) THEN KeepLast(Tail(s))
    ELSE <<Head(s)>> \o KeepLast(Tail(s))

RECURSIVE MergeAll(_, _)
MergeAll(map, s) ==
    IF s = <<>> THEN map ELSE MergeAll(merge_entry(map, Head(s)), Tail(s))

EmptyMediaMap == [m \in MergeMediaIds |-> NoMediaRecord]

Held(key) ==
    {m \in MergeMediaIds : mmap[m].present /\ mmap[m][key].form \in {"str", "json"}}

\* C34: isSafe is the conjunction of the per-image isSafe values,
\* moderationConfidence the minimum of the per-image confidences, totalFaces the
\* sum of the per-image facesDetected and mediaCount the number of media ids,
\* for bus strings and for JSON values
C34_AggregateFields ==
    LET agg == aggregate_values(mmap)
    IN /\ agg.isSafe = (\A m \in Held("isSafe") : mmap[m].isSafe.v = 1)
       /\ Held("moderationConfidence") # {}
            => agg.moderationConfidence =
                  MinOf({mmap[m].moderationConfidence.v : m \in Held("moderationConfidence")})
       /\ agg.totalFaces =
             SumTo([m \in MergeMediaIds |->
                      IF m \in Held("facesDetected") THEN mmap[m].facesDetected.v ELSE 0],
                   MaxMergeMedia)
       /\ agg.mediaCount = Cardinality({m \in MergeMediaIds : mmap[m].present})

(***************************************************************************)
(* The indexer's bulk write and its per-document fallback                  *)
(* (es_sync/worker.py: sync_batch, sync_document)                          *)
(***************************************************************************)
\* a document the store accepts, one it rejects whenever it is sent (a mapping
\* error), and a well-formed one whose bulk item is rejected for the moment (429)
DocKinds == {"ok", "malformed", "throttled"}

\* sync_batch: the per-document loop runs in "except Exception" only
falls_back(raised, errors) == raised

\* the caller has put one more action into the batch
BulkAppend ==
    /\ bpc = "building"
    /\ Len(bulk_batch) < MaxBulk
    /\ \E k \in DocKinds : bulk_batch' = Append(bulk_batch, k)
    /\ UNCHANGED <<bpc, es_index, bulk_errors, doc_i, doc_retry, attempted, sync_ok>>
    /\ UNCHANGED <<notBulk, baseVars>>

\* sync_batch(actions): es_bulk(..., raise_on_error=False) writes every item the
\* store accepts and returns the item errors, or raises; item errors are logged
\* as a count and False is returned
sync_batch ==
    /\ bpc = "building"
    /\ bulk_batch # <<>>
    /\ \E raised \in BOOLEAN :
          LET written == IF raised THEN {}
                         ELSE {i \in 1..Len(bulk_batch) : bulk_batch[i] = "ok"}
              errors == IF raised THEN 0 ELSE Len(bulk_batch) - Cardinality(written)
          IN /\ es_index' = written
             /\ bulk_errors' = errors
             /\ IF falls_back(raised, errors)
                THEN /\ bpc' = "fallback"
                     /\ doc_i' = 1
                ELSE /\ bpc' = "returned"
                     /\ UNCHANGED doc_i
             /\ sync_ok' = (errors = 0)
    /\ UNCHANGED <<bulk_batch, doc_retry, attempted>>
    /\ UNCHANGED <<notBulk, baseVars>>

\* sync_document(index, id, doc, retry_count): one es_client.index call; when it
\* raises and retry_count < MAX_RETRIES the call is repeated after a sleep
sync_document ==
    /\ bpc = "fallback"
    /\ doc_i <= Len(bulk_batch)
    /\ attempted' = attempted \cup {doc_i}
    /\ \E indexed \in IF bulk_batch[doc_i] = "malformed" THEN {FALSE} ELSE BOOLEAN :
          IF indexed
          THEN /\ es_index' = es_index \cup {doc_i}
               /\ doc_i' = doc_i + 1
               /\ doc_retry' = 0
               /\ UNCHANGED sync_ok
          ELSE IF doc_retry < MAX_RETRIES
               THEN /\ doc_retry' = doc_retry + 1
                    /\ UNCHANGED <<es_index, doc_i, sync_ok>>
               ELSE /\ doc_i' = doc_i + 1
                    /\ doc_retry' = 0
                    /\ sync_ok' = FALSE
                    /\ UNCHANGED es_index
    /\ UNCHANGED <<bulk_batch, bpc, bulk_errors>>
    /\ UNCHANGED <<notBulk, baseVars>>

\* sync_batch: the per-document loop is over, "return ok"
BulkFallbackEnds ==
    /\ bpc = "fallback"
    /\ doc_i > Len(bulk_batch)
    /\ bpc' = "returned"
    /\ UNCHANGED <<bulk_batch, es_index, bulk_errors, doc_i, doc_retry, attempted, sync_ok>>
    /\ UNCHANGED <<notBulk, baseVars>>

InitBulk ==
    /\ BulkAtRest
    /\ RestExceptBulk
    /\ BaseAtRest

NextBulk ==
    \/ BulkAppend
    \/ sync_batch
    \/ sync_document
    \/ BulkFallbackEnds

SpecBulk == InitBulk /\ [][NextBulk]_vars

\* C35: when the bulk write has reported errors for some documents of the batch,
\* sync_batch returns with every document the store accepts written, and with a
\* per-document write made for every document the bulk did not write
C35_PartialBulkFailure ==
    (bpc = "returned" /\ bulk_errors > 0)
        => \A i \in 1..Len(bulk_batch) :
              /\ bulk_batch[i] = "ok" => i \in es_index
              /\ i \notin es_index => i \in attempted

(***************************************************************************)
(* consume: the errors of a read (redis_streams/consumer.py)               *)
(***************************************************************************)
\* variant: the loop sleeps 2 s after every NOGROUP
sleep_always(created) == 2

\* "except ResponseError" with NOGROUP: time.sleep(2) is in the except clause of
\* the failed create_consumer_group only
sleep_after_nogroup(created) == IF created THEN 0 ELSE 2

\* consume(): create_consumer_group(start_id="0"), the startup scan finds nothing
RecStart ==
    /\ npc = "stopped"
    /\ ngroup' = TRUE
    /\ nlast' = IF ngroup THEN nlast ELSE 0
    /\ npc' = "read"
    /\ UNCHANGED <<nstream, ncur, niter, ninvoked, ndeleted>>
    /\ UNCHANGED <<notRec, baseVars>>

\* a producer appends an entry
RecAppend ==
    /\ nstream < MaxEntries
    /\ nstream' = nstream + 1
    /\ UNCHANGED <<ngroup, nlast, npc, ncur, niter, ninvoked, ndeleted>>
    /\ UNCHANGED <<notRec, baseVars>>

\* XGROUP DESTROY from outside while the loop runs
RecDestroyGroup ==
    /\ npc # "stopped"
    /\ ngroup
    /\ ngroup' = FALSE
    /\ ndeleted' = TRUE
    /\ UNCHANGED <<nstream, nlast, npc, ncur, niter, ninvoked>>
    /\ UNCHANGED <<notRec, baseVars>>

\* xreadgroup('>', count=10) returns the undelivered entries, or nothing after
\* block_ms
RecRead ==
    /\ npc = "read"
    /\ ngroup
    /\ niter' = Iteration("none", FALSE, 0)
    /\ IF nlast < nstream
       THEN /\ ncur' = <<nlast + 1, Min(nlast + DEFAULT_READ_COUNT, nstream)>>
            /\ nlast' = Min(nlast + DEFAULT_READ_COUNT, nstream)
            /\ npc' = "handler"
       ELSE UNCHANGED <<ncur, nlast, npc>>
    /\ UNCHANGED <<nstream, ngroup, ninvoked, ndeleted>>
    /\ UNCHANGED <<notRec, baseVars>>

\* handler(msg_id, data) for the next entry of the reply, then xack or the
\* logged exception; after the last entry the loop goes round
RecHandler ==
    /\ npc = "handler"
    /\ ninvoked' = [ninvoked EXCEPT ![ncur[1]] = Min(@ + 1, 2)]
    /\ ncur' = <<ncur[1] + 1, ncur[2]>>
    /\ npc' = IF ncur[1] = ncur[2] THEN "read" ELSE "handler"
    /\ UNCHANGED <<nstream, ngroup, nlast, niter, ndeleted>>
    /\ UNCHANGED <<notRec, baseVars>>

\* xreadgroup raises ResponseError NOGROUP: create_consumer_group(start_id="0");
\* when that raises too, the error is logged and the loop sleeps
RecNoGroup ==
    /\ npc = "read"
    /\ ~ngroup
    /\ \E created \in BOOLEAN :
          /\ ngroup' = created
          /\ nlast' = IF created THEN 0 ELSE nlast
          /\ niter' = Iteration("NOGROUP", created, sleep_after_nogroup(created))
    /\ UNCHANGED <<nstream, npc, ncur, ninvoked, ndeleted>>
    /\ UNCHANGED <<notRec, baseVars>>

\* xreadgroup raises another ResponseError or any other exception: logged,
\* time.sleep(1)
RecOtherError ==
    /\ npc = "read"
    /\ niter' = Iteration("other", FALSE, 1)
    /\ UNCHANGED <<nstream, ngroup, nlast, npc, ncur, ninvoked, ndeleted>>
    /\ UNCHANGED <<notRec, baseVars>>

InitRec ==
    /\ RecAtRest
    /\ RestExceptRec
    /\ BaseAtRest

NextRec ==
    \/ RecStart
    \/ RecAppend
    \/ RecDestroyGroup
    \/ RecRead
    \/ RecHandler
    \/ RecNoGroup
    \/ RecOtherError

SpecRec == InitRec /\ [][NextRec]_vars

\* the loop has not been left
LoopRuns == npc' \in {"read", "handler"}

\* a read of the existing group hands every undelivered entry to the handler
ReadDelivers ==
    (npc = "read" /\ ngroup /\ nlast < nstream /\ niter'.error = "none" /\ nlast' # nlast)
        => /\ npc' = "handler"
           /\ ncur'[1] = nlast + 1
           /\ ncur'[2] = nlast'
           /\ nlast' = Min(nlast + DEFAULT_READ_COUNT, nstream)

\* C36 as stated: an iteration that found the group deleted recreates it and
\* sleeps 2 s, an iteration with another bus error sleeps 1 s, the loop is never
\* left, and a later read of the group delivers the undelivered entries
C36_SleepsAfterRecreate ==
    [][(npc # "stopped")
         => /\ LoopRuns
            /\ (niter' # niter /\ niter'.error = "NOGROUP" /\ niter'.created)
                  => (ngroup' /\ niter'.slept = 2)
            /\ (niter' # niter /\ niter'.error = "other") => niter'.slept = 1
            /\ ReadDelivers]_vars

\* C36 as amended: an iteration that found the group deleted recreates it at "0"
\* and goes on without sleeping; it sleeps 2 s only when the recreation failed;
\* an iteration with another bus error sleeps 1 s; the loop is never left, and a
\* later read of the group delivers the undelivered entries, those handled before
\* the deletion included
C36_Recovery ==
    [][(npc # "stopped")
         => /\ LoopRuns
            /\ (niter' # niter /\ niter'.error = "NOGROUP")
                  => IF niter'.created
                     THEN ngroup' /\ nlast' = 0 /\ niter'.slept = 0
                     ELSE ~ngroup' /\ niter'.slept = 2
            /\ (niter' # niter /\ niter'.error = "other") => niter'.slept = 1
            /\ ReadDelivers]_vars

\* the group was deleted and recreated, and an entry appended after that has
\* been handed to the handler, as has (for the second time) the entry handled
\* before the deletion
C36_Witness ==
    /\ ndeleted
    /\ ngroup
    /\ npc = "read"
    /\ nstream = 2
    /\ ninvoked[1] = 2
    /\ ninvoked[2] = 1

\* the step in which consumer b's scan takes the poison path for the head of its
\* xpending_range reply
PoisonPath(b) ==
    /\ pc[b] = "scan"
    /\ scan[b] # <<>>
    /\ IsPoison(Head(scan[b]))
    /\ scan'[b] # scan[b]

\* C37: in the poison path of a pending scan the entry is acked and leaves the
\* pending set whether or not the DLQ sink call succeeded: when the sink raises,
\* the ack is sent all the same, and the scan goes on with the remaining entries
\* of its reply
C37_AckRegardless ==
    [][\A b \in Consumers :
          PoisonPath(b)
             => LET e == Head(scan[b]).message_id
                IN /\ ackCalls'[e] = Min(ackCalls[e] + 1, 2)
                   /\ OwnersAfter(e) = {}
                   /\ delivered'[e] = 0
                   /\ dlqSink'[e] = dlqSink[e] => e \in sinkRaised'
                   /\ pc'[b] = "scan"
                   /\ scan'[b] = Tail(scan[b])]_vars

\* the sink raised for a poison entry, which is acked and pending nowhere, and
\* the same scan still has an entry of its reply to go through
C37_Witness ==
    \E b \in Consumers : \E e \in Entries :
        /\ e \in sinkRaised
        /\ dlqSink[e] = 0
        /\ ackCalls[e] = 1
        /\ Owners(e) = {}
        /\ pc[b] = "scan"
        /\ scan[b] # <<>>
        /\ Head(scan[b]).message_id # e

(***************************************************************************)
(* The consumer group of a worker: no DLQ sink is passed to the consumer   *)
(***************************************************************************)
InitNoSink ==
    /\ BusAtRest
    /\ readCount = WORKER_READ_COUNT
    /\ PubAtRest
    /\ WorkerAtRest
    /\ AggAtRest
    /\ RestExceptSink
    /\ sinkRaised = {}
    /\ deliveryCounts = TRUE

SpecNoSink == InitNoSink /\ [][NextBus]_vars

\* the step in which a handler invocation on e that returned normally is
\* followed by the xack
AckOfReturned(e) ==
    \E c \in Consumers :
        /\ cur[c] = e
        /\ result[c] = "returned"
        /\ pc[c] \in {"after", "claim_after"}
        /\ pc'[c] # pc[c]

\* C38: with no DLQ sink on the consumer, an idle pending entry is never taken
\* for poison: every scan that reaches it (still pending and idle, the process
\* not being killed) claims it and
\* invokes the handler on it whatever its delivery count; a handler exception
\* in that invocation leaves the pending lists as they are; and an entry leaves
\* the pending set only in the step that follows a normal return of a handler
\* invocation on it
C38_NoSinkRedispatch ==
    /\ [](~dlq_publisher
            => \A b \in Consumers :
                  scan[b] # <<>> => ~IsPoison(Head(scan[b])))
    /\ [][~dlq_publisher
            => /\ \A b \in Consumers :
                     /\ (ScanPasses(b) /\ pc'[b] # "stopped")
                           => LET e == Head(scan[b]).message_id
                              IN /\ OwnersAfter(e) = {b}
                                 /\ cur'[b] = e
                                 /\ pc'[b] = "claim_handler"
                     /\ (pc[b] = "claim_after" /\ result[b] = "raised"
                                              /\ pc'[b] \notin {pc[b], "stopped"})
                           => /\ pending' = pending
                              /\ pc'[b] = "scan"
               /\ \A e \in Entries :
                     (Owners(e) # {} /\ OwnersAfter(e) = {}) => AckOfReturned(e)]_vars

\* a scan has claimed an entry already delivered max_claim_failures times and
\* its handler is running on it once more
C38_Witness ==
    \E b \in Consumers :
        /\ ~dlq_publisher
        /\ pc[b] = "claim_handler"
        /\ cur[b] \in Entries
        /\ delivered[cur[b]] >= DEFAULT_MAX_CLAIM_FAILURES
        /\ cur[b] \in pending[b]

(***************************************************************************)
(* The DLQ retry ring: an analysis worker's publish_to_dlq, the DLQ        *)
(* processor's re-publish to post-image-processing, and the five analysis  *)
(* groups that read that stream.  The bus calls succeed here.              *)
(***************************************************************************)
\* the value stored under a field of a stream entry
field_of(pairs, name) ==
    IF \E p \in pairs : p[1] = <<name>>
    THEN (CHOOSE p \in pairs : p[1] = <<name>>)[2]
    ELSE Absent

\* the entry as handle_message reads it
as_job(pairs) ==
    [mediaId |-> field_of(pairs, "mediaId"),
     postId |-> field_of(pairs, "postId"),
     mediaUrl |-> field_of(pairs, "mediaUrl"),
     utf8 |-> TRUE]

\* the job fields of the entry, as publish_to_dlq is given them in data
entry_data(pairs) ==
    [i \in 1..Len(JobFields) |->
        IF field_of(pairs, JobFields[i]) = Absent THEN <<>> ELSE field_of(pairs, JobFields[i])]

\* the entry the upstream service appends for a job
job_pairs(job_entry) == {<<(<<JobFields[i]>>), job_entry[i]>> : i \in 1..Len(JobFields)}

\* the group of service g is delivered the next entry of post-image-processing:
\* handle_message, then the xack of consume
LoopWorker(g) ==
    /\ lpos[g] < Len(lstream)
    /\ LET e == lstream[lpos[g] + 1]
           check == handle_message_validate(as_job(e.data))
           to_dlq == check = "raised" \/ (check = "valid" /\ g = lfailing)
           retry_count == IF check = "valid" THEN MAX_RETRIES ELSE 0
       IN IF to_dlq /\ e.round < MaxRounds
          THEN ldlq' = Append(ldlq, [msg |-> dlq_message(entry_data(e.data), g, retry_count),
                                     round |-> e.round])
          ELSE UNCHANGED ldlq
    /\ lpos' = [lpos EXCEPT ![g] = @ + 1]
    /\ UNCHANGED <<loop_auto_retry, lfailing, lstream, lproc>>
    /\ UNCHANGED <<notLoop, baseVars>>

\* dlq-processor-group is delivered the next entry of ai-processing-dlq:
\* handle_message, then the xack of consume
LoopDlqProcessor ==
    /\ lproc < Len(ldlq)
    /\ LET e == ldlq[lproc + 1]
       IN lstream' = IF loop_auto_retry
                     THEN Append(lstream, [data |-> retry_message(e.msg), round |-> e.round + 1])
                     ELSE lstream
    /\ lproc' = lproc + 1
    /\ UNCHANGED <<loop_auto_retry, lfailing, lpos, ldlq>>
    /\ UNCHANGED <<notLoop, baseVars>>

\* the job entries with a numeric mediaId, with or without URL
DecodableJobs ==
    {job_entry \in JobEntries :
        handle_message_validate(as_job(job_pairs(job_entry))) # "raised"}

InitLoop ==
    /\ loop_auto_retry \in BOOLEAN
    /\ lfailing \in ServiceNames
    /\ \E job_entry \in DecodableJobs : lstream = <<[data |-> job_pairs(job_entry), round |-> 0]>>
    /\ lpos = [g \in ServiceNames |-> 0]
    /\ ldlq = <<>>
    /\ lproc = 0
    /\ RestExceptLoop
    /\ BaseAtRest

NextLoop ==
    \/ \E g \in ServiceNames : LoopWorker(g)
    \/ LoopDlqProcessor

SpecLoop == InitLoop /\ [][NextLoop]_vars

\* every worker and the DLQ processor keeps consuming
FairSpecLoop ==
    /\ SpecLoop
    /\ \A g \in ServiceNames : WF_vars(LoopWorker(g))
    /\ WF_vars(LoopDlqProcessor)

\* the job of the first entry is one a worker takes up and fails on
JobFailsEveryAttempt ==
    handle_message_validate(as_job(lstream[1].data)) = "valid"

\* C39: with DLQ_AUTO_RETRY enabled, an entry re-appended by the DLQ processor
\* is given to the handler of every analysis group, and a job that fails on
\* every attempt goes round through worker, DLQ and DLQ processor again and
\* again: the entry of round MaxRounds is appended and given to every group too
C39_RetryLoopUnbounded ==
    (loop_auto_retry /\ JobFailsEveryAttempt)
        => <>(\E i \in DOMAIN lstream :
                 /\ lstream[i].round = MaxRounds
                 /\ \A g \in ServiceNames : lpos[g] >= i)

(***************************************************************************)
(* The indexer, entry by entry: message_handler, _flush_batch, sync_batch  *)
(* and the xack of consume (services/es_sync/worker.py, main)              *)
(***************************************************************************)
SyncEvents == 1..MaxSyncEvents

\* what message_handler meets on an entry: the three early returns, an
\* exception of decode_message or of the database read, or an action appended
SyncKinds == {"invalid", "unknown_type", "no_row", "raises", "index", "delete"}

\* the kinds for which message_handler appends an action
Appends(kind) == kind \in {"index", "delete"}

\* sync_batch: "if not self.es_client or not actions: return False", else
\* es_bulk, after whose exception every action goes through sync_document /
\* delete_document; the result is what the history records
sync_batch_call(actions, outcome) ==
    IF ~es_client \/ actions = <<>> THEN "not_written" ELSE outcome

\* one second passes in the blocking read
IxTick ==
    /\ ix_since < ES_SYNC_BATCH_TIMEOUT
    /\ ix_since' = ix_since + 1
    /\ UNCHANGED <<es_client, ix_next, ix_kind, ix_batch, ix_submitted, ix_acked, ix_bulk>>
    /\ UNCHANGED <<notIx, baseVars>>

\* consume hands the next entry to message_handler; when the handler has
\* returned the entry is acked, when it raised the entry stays pending
IxHandle ==
    /\ ix_next <= MaxSyncEvents
    /\ \E kind \in SyncKinds, outcome \in {"ok", "errors", "raised"} :
          /\ ix_kind' = [ix_kind EXCEPT ![ix_next] = kind]
          /\ ix_acked' = IF kind = "raises" THEN ix_acked ELSE ix_acked \cup {ix_next}
          /\ IF Appends(kind) /\ flush_due(Len(ix_batch) + 1, ix_since)
             THEN \* _flush_batch: sync_batch(batch_actions), batch_actions = []
                  LET actions == Append(ix_batch, ix_next)
                      bulk == sync_batch_call(actions, outcome)
                  IN /\ ix_bulk' = bulk
                     /\ ix_submitted' = IF bulk = "not_written" THEN ix_submitted
                                        ELSE ix_submitted \cup SeqToSet(actions)
                     /\ ix_batch' = <<>>
                     /\ ix_since' = 0
             ELSE /\ ix_batch' = IF Appends(kind) THEN Append(ix_batch, ix_next) ELSE ix_batch
                  /\ UNCHANGED <<ix_submitted, ix_bulk, ix_since>>
    /\ ix_next' = ix_next + 1
    /\ UNCHANGED es_client
    /\ UNCHANGED <<notIx, baseVars>>

\* the constructor of ElasticsearchSyncHandler leaves es_client None after an
\* ImportError or any other exception, and main() goes on
InitIx ==
    /\ es_client \in BOOLEAN
    /\ ix_next = 1
    /\ ix_kind = [e \in SyncEvents |-> "none"]
    /\ ix_batch = <<>>
    /\ ix_since = 0
    /\ ix_submitted = {}
    /\ ix_acked = {}
    /\ ix_bulk = "none"
    /\ RestExceptIx
    /\ BaseAtRest

NextIx ==
    \/ IxTick
    \/ IxHandle

SpecIx == InitIx /\ [][NextIx]_vars

\* C40: an es-sync-queue entry is acked when its handler has returned; in every
\* state of the running indexer each acked entry for which the handler appended
\* an action has that action still in the batch or already handed to a bulk
\* write; and a flush empties the batch whatever the bulk write did
C40_AckedBatchedOrSubmitted ==
    /\ [](\A e \in ix_acked :
             Appends(ix_kind[e]) => (e \in SeqToSet(ix_batch) \/ e \in ix_submitted))
    /\ [][ /\ ix_acked' = IF ix_next' # ix_next /\ ix_kind'[ix_next] # "raises"
                          THEN ix_acked \cup {ix_next} ELSE ix_acked
           /\ (ix_batch # <<>> /\ ix_batch' # ix_batch /\ Len(ix_batch') <= Len(ix_batch))
                 => ix_batch' = <<>> ]_vars

====
